---- MODULE Spec2Model ----
(***************************************************************************)
(* A model of the ArqonHPO adaptive engine: the atomic configuration cell, *)
(* the audit queue, the safety executor with its guardrails, the control   *)
(* safety latch and the orchestrator that wires them.                      *)
(*                                                                         *)
(* Three specifications share the variables:                               *)
(*   SpecCfg    several threads on one AtomicConfig, each call split at    *)
(*              its atomic steps (fetch_add, lock-protected load/store);   *)
(*   SpecAudit  producers and drainers on one AuditQueue, each call split  *)
(*              at its atomic queue operations;                            *)
(*   Spec       the single-threaded engine: every call runs to completion. *)
(*                                                                         *)
(* Parameter values and deltas are integers (one unit is the step of the   *)
(* grid the values are drawn from), times are integers (one unit is one    *)
(* tick of the clock the engine reads).                                    *)
(***************************************************************************)
EXTENDS Integers, Sequences, FiniteSets, TLC

VARIABLES
    inner,              \* AtomicConfig.inner: the live snapshot
    generation,         \* AtomicConfig.generation: the AtomicU64 counter
    baseline,           \* AtomicConfig.baseline: None or a snapshot
    pc,                 \* SpecCfg: each writer thread's position
    tl,                 \* SpecCfg: each writer thread's locals
    seen,               \* SpecCfg: each reader's last two snapshot() results
    published,          \* history: every snapshot ever constructed for publication
    queue,              \* AuditQueue.queue: the ArrayQueue's content, oldest first
    ppc,                \* SpecAudit: each producer's position and event in flight
    dloc,               \* SpecAudit: each drainer's position and local Vec
    enq,                \* history: what enqueue did with each event
    returned,           \* history: how many times finished drains returned each event
    accepted,           \* history: the events whose push was accepted, in push order
    popped,             \* history: the events the drains have popped, in pop order
    now,                \* the clock the engine reads (get_timestamp_us)
    last_update_us,     \* SafetyExecutor.last_update_us
    updates_in_window,  \* SafetyExecutor.updates_in_window
    window_start_us,    \* SafetyExecutor.window_start_us
    safe_mode,          \* ControlSafety.safe_mode: None or the latch
    nPub,               \* history: the number of swaps and rollbacks that published
    okAt,               \* history: the time of the last apply that swapped, -1 before it
    last,               \* history: the engine call that ran last, and what it met
    heap,               \* SpecArc: the snapshots the Arcs point at, by address
    live,               \* SpecArc: the address AtomicConfig.inner holds
    base,               \* SpecArc: None or the address AtomicConfig.baseline holds
    held,               \* SpecArc: the handles snapshot() returned, with what they showed
    baseWas,            \* SpecArc history: what the baseline showed when it was captured
    twins,              \* SpecTwin: two Spsa optimizers (spsa.rs) built alike
    emitted,            \* SpecTwin history: what each twin's last step returned
    sp,                 \* the proposer's Spsa: state machine, counters, PRNG position
    telemetry,          \* TelemetryRingBuffer.buffer: objective values, oldest first
    current_delta,      \* SpecHot: SpsaProposer.current_delta
    out,                \* history: the last observe, what it met and what it returned
    direction_tracker,  \* ControlSafety.direction_tracker: a DirectionHistory per parameter
    delta_budget,       \* ControlSafety.delta_budget: a DeltaBudget per parameter
    recorded,           \* history: the last record_delta, what it met
    consecutive_regressions, \* ControlSafety.consecutive_regressions
    last_objective,     \* ControlSafety.last_objective
    noted,              \* history: the last record_objective and the values before it
    aq,                 \* SpecQueue: an AuditQueue of a capacity chosen at construction
    aqlog,              \* SpecQueue history: the last call on aq, what it met and returned
    tb,                 \* SpecTel: a TelemetryRingBuffer of a capacity chosen at construction
    tblog,              \* SpecTel history: the digests pushed, the last call and its result
    guardrails,         \* SpecRate: the Guardrails of a SafetyExecutor
    ratelog             \* SpecRate history: the last apply, what it met and returned

cfgVars == <<inner, generation, baseline>>
thrVars == <<pc, tl, seen, published>>
audVars == <<ppc, dloc, enq, returned, accepted, popped>>
exeVars == <<last_update_us, updates_in_window, window_start_us>>
engVars == <<now, last_update_us, updates_in_window, window_start_us, safe_mode, nPub, okAt, last>>
vars == <<inner, generation, baseline, pc, tl, seen, published,
          queue, ppc, dloc, enq, returned, accepted, popped,
          now, last_update_us, updates_in_window, window_start_us, safe_mode, nPub, okAt, last,
          heap, live, base, held, baseWas, twins, emitted,
          sp, telemetry, current_delta, out,
          direction_tracker, delta_budget, recorded,
          consecutive_regressions, last_objective, noted,
          aq, aqlog, tb, tblog, guardrails, ratelog>>
\* The variables of SpecCfg, SpecAudit and Spec, and those of the other
\* specifications.
coreVars == <<cfgVars, thrVars, queue, audVars, engVars>>
arcVars == <<heap, live, base, held, baseWas>>
twinVars == <<twins, emitted>>
obsVars == <<sp, telemetry, current_delta, out>>
csVars == <<direction_tracker, delta_budget, recorded>>
regVars == <<consecutive_regressions, last_objective, noted>>
\* The variables of the specifications that follow SpecCs
aqVars == <<aq, aqlog>>
tbVars == <<tb, tblog>>
rateVars == <<guardrails, ratelog>>
moreVars == <<regVars, aqVars, tbVars, rateVars>>
extVars == <<arcVars, twinVars, obsVars, csVars, moreVars>>

\* Option<T>: None is the empty sequence, Some(x) the one-element sequence.
None == <<>>
Some(x) == <<x>>
Unwrap(o) == o[1]

(***************************************************************************)
(* Bounds of the model.                                                    *)
(***************************************************************************)
\* The generation counter is capped: no swap or rollback starts at MaxGen.
MaxGen == 3
\* AuditQueue::new(capacity): the capacity the queue is built with.
AuditCap == 2
\* SpecAudit: the number of events each producer enqueues.
MaxEvents == 2

(***************************************************************************)
(* AtomicConfig (config_atomic.rs)                                         *)
(***************************************************************************)
\* ConfigSnapshot::with_generation
WithGeneration(params, g) == [params |-> params, generation |-> g]

\* ConfigSnapshot::new: generation 0
NewSnapshot(params) == WithGeneration(params, 0)

\* A fetch_add whose old value is taken for the new generation.
FetchAddOld(g) == g

\* generation.fetch_add(1, AcqRel) + 1: the new generation the caller computes
\* from the counter's old value g (the counter itself goes to g + 1)
FetchAdd(g) == g + 1

\* A store that keeps the old generation field: a torn publication.
StoreInnerTorn(cur, new_snapshot) == [cur EXCEPT !.params = new_snapshot.params]

\* *self.inner.write().unwrap() = new_snapshot: the pointer is replaced whole
StoreInner(cur, new_snapshot) == new_snapshot

\* The cell's three fields as one value, for the calls that run to completion.
Cell == [inner |-> inner, generation |-> generation, baseline |-> baseline, ret |-> None]

\* swap run to completion: the cell after it, with the generation it returns
SwapCell(cell, new_params) ==
    LET new_gen == FetchAdd(cell.generation) IN
    [inner |-> StoreInner(cell.inner, WithGeneration(new_params, new_gen)),
     generation |-> cell.generation + 1,
     baseline |-> cell.baseline,
     ret |-> Some(new_gen)]

\* set_baseline run to completion
SetBaselineCell(cell) == [cell EXCEPT !.baseline = Some(cell.inner)]

\* A rollback that takes the baseline out of its slot.
RollbackCellTaking(cell) ==
    IF cell.baseline = None
      THEN [cell EXCEPT !.ret = None]
      ELSE [inner |-> WithGeneration(Unwrap(cell.baseline).params, cell.generation + 1),
            generation |-> cell.generation + 1,
            baseline |-> None,
            ret |-> Some(cell.generation + 1)]

\* A rollback that takes its generation before it looks at the baseline.
RollbackCellCounting(cell) ==
    IF cell.baseline = None
      THEN [cell EXCEPT !.generation = cell.generation + 1, !.ret = None]
      ELSE [inner |-> WithGeneration(Unwrap(cell.baseline).params, cell.generation + 1),
            generation |-> cell.generation + 1,
            baseline |-> cell.baseline,
            ret |-> Some(cell.generation + 1)]

\* rollback run to completion: None and no change without a baseline
RollbackCell(cell) ==
    IF cell.baseline = None
      THEN [cell EXCEPT !.ret = None]
      ELSE LET new_gen == FetchAdd(cell.generation) IN
           [inner |-> StoreInner(cell.inner,
                                 WithGeneration(Unwrap(cell.baseline).params, new_gen)),
            generation |-> cell.generation + 1,
            baseline |-> cell.baseline,
            ret |-> Some(new_gen)]

\* SpecCfg and SpecAudit: the threads, and the cell AtomicConfig::new builds.
Writers == {"w1", "w2"}
Readers == {"r1"}
\* The vectors the writers swap in: swap takes any ParamVec, of any length.
SwapParams == {<<5>>, <<6, 7>>}
InitialParams == <<4>>

IdleLocals == [snap |-> None, ret |-> None]

CfgIdle ==
    /\ inner = NewSnapshot(InitialParams)
    /\ generation = 0
    /\ baseline = None
    /\ pc = [w \in Writers |-> "idle"]
    /\ tl = [w \in Writers |-> IdleLocals]
    /\ seen = [r \in Readers |-> [prev |-> NewSnapshot(InitialParams),
                                  cur |-> NewSnapshot(InitialParams)]]
    /\ published = {NewSnapshot(InitialParams)}

\* SpecArc does not run.
ArcIdle ==
    /\ heap = <<>>
    /\ live = 0
    /\ base = None
    /\ held = {}
    /\ baseWas = None

\* SpecTwin does not run.
TwinIdle ==
    /\ twins = <<>>
    /\ emitted = <<>>

\* Spsa::new(seed, num_params, ..) of the proposer: Ready, both counters 0,
\* the PRNG at the start of its stream
NewProposerSpsa ==
    [state |-> "Ready", perturbation_id |-> 0, delta |-> <<>>, y_plus |-> 0,
     samples |-> 0, sum |-> 0, started_us |-> 0,
     k |-> 0, perturbation_counter |-> 0, pos |-> 0]

\* No observe has run.
ObsIdle ==
    /\ sp = NewProposerSpsa
    /\ telemetry = <<>>
    /\ current_delta = None
    /\ out = [op |-> "new", opened |-> None]

\* DirectionHistory::default(), DeltaBudget::default(): what or_default()
\* gives a parameter that has no entry yet
NewDirectionHistory == [last_direction |-> None, flip_count |-> 0, window_start_us |-> 0]
NewDeltaBudget == [cumulative |-> 0, window_start_us |-> 0]
\* The slots of a ParamVec, one per parameter
ParamIds == {1, 2}

\* ControlSafety::new: both maps empty, nothing recorded
CsIdle ==
    /\ direction_tracker = [i \in ParamIds |-> NewDirectionHistory]
    /\ delta_budget = [i \in ParamIds |-> NewDeltaBudget]
    /\ recorded = [op |-> "new", seen |-> [i \in ParamIds |-> 0]]

\* ControlSafety::new: no objective recorded, no regression counted
RegIdle ==
    /\ consecutive_regressions = 0
    /\ last_objective = None
    /\ noted = [op |-> "new", values |-> <<>>]

\* What the specifications that follow SpecCs start from
\* No AuditQueue, TelemetryRingBuffer or SafetyExecutor of its own is built.
AqIdle == aq = None /\ aqlog = [op |-> "none"]
TbIdle == tb = None /\ tblog = [op |-> "none"]
RateIdle == guardrails = None /\ ratelog = [op |-> "none"]
MoreIdle == RegIdle /\ AqIdle /\ TbIdle /\ RateIdle

\* No specification but SpecCfg, SpecAudit or Spec runs.
ExtIdle == ArcIdle /\ TwinIdle /\ ObsIdle /\ CsIdle /\ MoreIdle

\* SpecCfg and SpecAudit: no engine runs.
EngIdle ==
    /\ now = 0
    /\ last_update_us = 0
    /\ updates_in_window = 0
    /\ window_start_us = 0
    /\ safe_mode = None
    /\ nPub = 0
    /\ okAt = -1
    /\ last = [op |-> "new"]

(***************************************************************************)
(* AuditQueue (audit.rs)                                                   *)
(***************************************************************************)
\* AuditQueue::new: high_water_mark = (capacity * 80) / 100
HighWaterMark(capacity) == (capacity * 80) \div 100

\* ArrayQueue::push: Err(event) when the queue holds capacity events
PushAccepts(q) == Len(q) < AuditCap

\* A push that overwrites the oldest event when the queue is full.
QueueForcePush(q, event) ==
    IF Len(q) < AuditCap THEN Append(q, event) ELSE Append(Tail(q), event)

\* A push that puts the event before the ones the queue holds.
QueuePushFront(q, event) == IF PushAccepts(q) THEN <<event>> \o q ELSE q

\* ArrayQueue::push: the content after the push
QueuePush(q, event) == IF PushAccepts(q) THEN Append(q, event) ELSE q

\* enqueue line 99-103: the result of an accepted push, from queue.len()
AcceptedResult(len) ==
    IF len >= HighWaterMark(AuditCap) THEN "HighWaterMark" ELSE "Ok"

\* An enqueue that never reports Full.
EnqueueNeverFull(q) == "Ok"

\* AuditQueue::enqueue run to completion: the result the caller gets
EnqueueResult(q) ==
    IF PushAccepts(q) THEN AcceptedResult(Len(QueuePush(q, "e"))) ELSE "Full"

\* AuditQueue::drain run to completion: every event, oldest first
DrainAll(q) == q

(***************************************************************************)
(* SpecAudit: producers and drainers on one AuditQueue.                    *)
(***************************************************************************)
Producers == {"p1", "p2"}
Drainers == {"d1", "d2"}
\* Producer p's k-th event is <<p, k>>.
Events == Producers \X (1..MaxEvents)

\* The number of places of sequence s that hold e.
Occurrences(s, e) == Cardinality({i \in 1..Len(s) : s[i] = e})

AudIdle ==
    /\ ppc = [p \in Producers |-> [at |-> "idle", n |-> 0]]
    /\ dloc = [d \in Drainers |-> [at |-> "idle", events |-> <<>>]]
    /\ enq = [e \in Events |-> "NotIssued"]
    /\ returned = [e \in Events |-> 0]
    /\ accepted = <<>>
    /\ popped = <<>>

InitAudit ==
    /\ ExtIdle
    /\ CfgIdle
    /\ queue = <<>>
    /\ AudIdle
    /\ EngIdle

\* enqueue line 97: self.queue.push(event)
EnqueuePush(p) ==
    /\ ppc[p].at = "idle"
    /\ ppc[p].n < MaxEvents
    /\ LET e == <<p, ppc[p].n + 1>> IN
        /\ queue' = QueuePush(queue, e)
        /\ IF PushAccepts(queue)
             THEN /\ enq' = [enq EXCEPT ![e] = "Pushed"]
                  /\ ppc' = [ppc EXCEPT ![p] = [at |-> "len", n |-> ppc[p].n + 1]]
             ELSE /\ enq' = [enq EXCEPT ![e] = "Full"]
                  /\ ppc' = [ppc EXCEPT ![p] = [at |-> "idle", n |-> ppc[p].n + 1]]
    /\ UNCHANGED <<cfgVars, thrVars, engVars, dloc, returned, accepted, popped, extVars>>

\* enqueue line 99-103: self.queue.len() is read after the push
EnqueueLen(p) ==
    /\ ppc[p].at = "len"
    /\ enq' = [enq EXCEPT ![<<p, ppc[p].n>>] = AcceptedResult(Len(queue))]
    /\ ppc' = [ppc EXCEPT ![p].at = "idle"]
    /\ UNCHANGED <<cfgVars, thrVars, engVars, queue, dloc, returned, accepted, popped, extVars>>

\* drain line 111: let mut events = Vec::new()
DrainStart(d) ==
    /\ dloc[d].at = "idle"
    /\ dloc' = [dloc EXCEPT ![d] = [at |-> "pop", events |-> <<>>]]
    /\ UNCHANGED <<cfgVars, thrVars, engVars, queue, ppc, enq, returned, accepted, popped,
                   extVars>>

\* drain line 112-114: one self.queue.pop(); None ends the loop and the call
DrainPop(d) ==
    /\ dloc[d].at = "pop"
    /\ IF queue # <<>>
         THEN /\ queue' = Tail(queue)
              /\ dloc' = [dloc EXCEPT ![d].events = Append(@, Head(queue))]
              /\ returned' = returned
         ELSE /\ queue' = queue
              /\ returned' = [e \in Events |-> returned[e] + Occurrences(dloc[d].events, e)]
              /\ dloc' = [dloc EXCEPT ![d] = [at |-> "idle", events |-> <<>>]]
    /\ UNCHANGED <<cfgVars, thrVars, engVars, ppc, enq, accepted, popped, extVars>>

NextAudit ==
    \/ \E p \in Producers : EnqueuePush(p)
    \/ \E p \in Producers : EnqueueLen(p)
    \/ \E d \in Drainers : DrainStart(d)
    \/ \E d \in Drainers : DrainPop(d)

SpecAudit == InitAudit /\ [][NextAudit]_vars

\* The number of times e has come out of the queue, in finished drains and in
\* the drains still running.
TimesDrained(e) ==
    LET Running[ds \in SUBSET Drainers] ==
            IF ds = {} THEN 0
            ELSE LET d == CHOOSE x \in ds : TRUE IN
                 Occurrences(dloc[d].events, e) + Running[ds \ {d}]
    IN returned[e] + Running[Drainers]

\* C5: an event whose enqueue returned Ok or HighWaterMark (or whose push was
\* accepted and whose enqueue has not returned yet) is either still in the
\* queue or has come out of exactly one drain, once; an event whose enqueue
\* returned Full is in no drain and not in the queue.
C5_NoSilentDrop ==
    \A e \in Events :
        /\ enq[e] \in {"Ok", "HighWaterMark", "Pushed"}
              => Occurrences(queue, e) + TimesDrained(e) = 1
        /\ enq[e] \in {"Full", "NotIssued"}
              => Occurrences(queue, e) + TimesDrained(e) = 0

\* The queue was full for one event, another enqueue returned Ok and another
\* HighWaterMark, and every accepted event has come out of a drain.
C5_Witness ==
    /\ \E e \in Events : enq[e] = "Full"
    /\ \E e \in Events : enq[e] = "Ok"
    /\ \E e \in Events : enq[e] = "HighWaterMark"
    /\ queue = <<>>
    /\ \A d \in Drainers : dloc[d].at = "idle"
    /\ \E e \in Events : returned[e] = 1

(***************************************************************************)
(* SpecCfg: threads on one AtomicConfig.                                   *)
(***************************************************************************)
InitCfg ==
    /\ ExtIdle
    /\ CfgIdle
    /\ queue = <<>>
    /\ AudIdle
    /\ EngIdle

\* snapshot(): one load under the read lock
Snapshot(r) ==
    /\ seen' = [seen EXCEPT ![r] = [prev |-> seen[r].cur, cur |-> inner]]
    /\ UNCHANGED <<inner, generation, baseline, pc, tl, published, queue, audVars, engVars, extVars>>

\* swap, line 146-147: fetch_add, then the new snapshot is constructed
SwapFetchAdd(w, new_params) ==
    /\ pc[w] = "idle"
    /\ generation < MaxGen
    /\ generation' = generation + 1
    /\ tl' = [tl EXCEPT ![w] = [snap |-> Some(WithGeneration(new_params, FetchAdd(generation))),
                                ret |-> None]]
    /\ published' = published \cup {WithGeneration(new_params, FetchAdd(generation))}
    /\ pc' = [pc EXCEPT ![w] = "store"]
    /\ UNCHANGED <<inner, baseline, seen, queue, audVars, engVars, extVars>>

\* swap line 148 and rollback line 168: the store under the write lock; the
\* call returns the generation it drew
StoreStep(w) ==
    /\ pc[w] = "store"
    /\ inner' = StoreInner(inner, Unwrap(tl[w].snap))
    /\ tl' = [tl EXCEPT ![w] = [snap |-> None, ret |-> Some(Unwrap(tl[w].snap).generation)]]
    /\ pc' = [pc EXCEPT ![w] = "idle"]
    /\ UNCHANGED <<generation, baseline, seen, published, queue, audVars, engVars, extVars>>

\* set_baseline line 154: current = self.snapshot()
SetBaselineLoad(w) ==
    /\ pc[w] = "idle"
    /\ tl' = [tl EXCEPT ![w] = [snap |-> Some(inner), ret |-> None]]
    /\ pc' = [pc EXCEPT ![w] = "set_baseline"]
    /\ UNCHANGED <<inner, generation, baseline, seen, published, queue, audVars, engVars, extVars>>

\* set_baseline line 155: the baseline slot is written
SetBaselineStore(w) ==
    /\ pc[w] = "set_baseline"
    /\ baseline' = tl[w].snap
    /\ tl' = [tl EXCEPT ![w] = IdleLocals]
    /\ pc' = [pc EXCEPT ![w] = "idle"]
    /\ UNCHANGED <<inner, generation, seen, published, queue, audVars, engVars, extVars>>

\* rollback line 162: the baseline is read; None returns at once
RollbackLoad(w) ==
    /\ pc[w] = "idle"
    /\ IF baseline = None
         THEN /\ tl' = [tl EXCEPT ![w] = [snap |-> None, ret |-> None]]
              /\ pc' = pc
         ELSE /\ tl' = [tl EXCEPT ![w] = [snap |-> baseline, ret |-> None]]
              /\ pc' = [pc EXCEPT ![w] = "rollback"]
    /\ UNCHANGED <<inner, generation, baseline, seen, published, queue, audVars, engVars, extVars>>

\* rollback line 163-167: fetch_add, then a snapshot of the baseline's params
RollbackFetchAdd(w) ==
    /\ pc[w] = "rollback"
    /\ generation < MaxGen
    /\ generation' = generation + 1
    /\ tl' = [tl EXCEPT ![w] = [snap |-> Some(WithGeneration(Unwrap(tl[w].snap).params, FetchAdd(generation))),
                                ret |-> None]]
    /\ published' = published \cup {WithGeneration(Unwrap(tl[w].snap).params, FetchAdd(generation))}
    /\ pc' = [pc EXCEPT ![w] = "store"]
    /\ UNCHANGED <<inner, baseline, seen, queue, audVars, engVars, extVars>>

NextCfg ==
    \/ \E r \in Readers : Snapshot(r)
    \/ \E w \in Writers, p \in SwapParams : SwapFetchAdd(w, p)
    \/ \E w \in Writers : StoreStep(w)
    \/ \E w \in Writers : SetBaselineLoad(w)
    \/ \E w \in Writers : SetBaselineStore(w)
    \/ \E w \in Writers : RollbackLoad(w)
    \/ \E w \in Writers : RollbackFetchAdd(w)

SpecCfg == InitCfg /\ [][NextCfg]_vars

(***************************************************************************)
(* Claims on the configuration cell under concurrency.                     *)
(***************************************************************************)
\* C2: every snapshot() result is a (params, generation) pair that new, one
\* swap or one rollback constructed together; no reader ever holds the params
\* of one publication with the generation of another.
C2_NoTornSnapshot ==
    \A r \in Readers : seen[r].cur \in published /\ seen[r].prev \in published

\* C2 witness: a reader holds a snapshot published by a swap after an earlier
\* swap with other params, while another store is still pending.
C2_Witness ==
    \E r \in Readers :
        /\ seen[r].cur.generation >= 2
        /\ seen[r].prev.generation >= 1
        /\ seen[r].prev.params # seen[r].cur.params
        /\ \E w \in Writers : pc[w] = "store"

\* C3 (as claimed): a reader's successive snapshot() results never go down in
\* generation, whatever the interleaving of the writers' swaps and rollbacks.
C3_ReaderGenerationsNeverDecrease ==
    \A r \in Readers : seen[r].cur.generation >= seen[r].prev.generation

(***************************************************************************)
(* Guardrails and the safety executor's gates (safety_executor.rs)         *)
(***************************************************************************)
\* Guardrails.max_delta_per_step
MaxDeltaPerStep == 1
\* Guardrails.min_interval_us, in ticks
MinIntervalUs == 1
\* Guardrails.cooldown_after_flip_us, in ticks
CooldownAfterFlipUs == 2
\* Guardrails.max_updates_per_second
MaxUpdatesPerSecond == 10
\* record_update's window of 1_000_000 us, in ticks of 500_000 us
RateWindowUs == 2
\* The clock stops at MaxTime.
MaxTime == 3

\* SafetyExecutor.bounds: the allowlist, each name with its domain
Bounds == [x |-> [min |-> 0, max |-> 3], y |-> [min |-> -1, max |-> 1]]
ParamNames == DOMAIN Bounds

\* The results of apply and rollback: a tag and the payload of the variant.
Result(tag, detail) == [tag |-> tag, detail |-> detail]
ViolationTags == {"DeltaTooLarge", "OutOfBounds", "RateLimitExceeded", "UnknownParameter"}

\* u64::saturating_sub
SaturatingSub(a, b) == IF a >= b THEN a - b ELSE 0

\* validate_delta line 74-98, one (param, d) of the delta: the first check
\* that fails, in the order allowlist, magnitude, bounds
ParamViolation(current, param, d) ==
    IF param \notin DOMAIN Bounds
      THEN Some(Result("UnknownParameter", <<param>>))
    ELSE IF (IF d >= 0 THEN d ELSE -d) > MaxDeltaPerStep
      THEN Some(Result("DeltaTooLarge", <<param, d, MaxDeltaPerStep>>))
    ELSE IF param \in DOMAIN current
            /\ (current[param] + d < Bounds[param].min \/ current[param] + d > Bounds[param].max)
      THEN Some(Result("OutOfBounds",
                       <<param, current[param] + d, Bounds[param].min, Bounds[param].max>>))
    ELSE None

\* validate_delta: the loop returns at the first entry that fails a check, and
\* the HashMap's iteration order is any order, so each failing entry's
\* violation is a possible result; the empty set is Ok(())
ValidateDelta(current, delta) ==
    {Unwrap(ParamViolation(current, p, delta[p]))
        : p \in {q \in DOMAIN delta : ParamViolation(current, q, delta[q]) # None}}

\* A clamp that leaves every value as it is.
ClampNothing(params) == params

\* clamp_to_bounds: value.clamp(domain.min, domain.max) for each allowlisted name
ClampToBounds(params) ==
    [p \in DOMAIN params |->
        IF p \in DOMAIN Bounds
          THEN IF params[p] < Bounds[p].min THEN Bounds[p].min
               ELSE IF params[p] > Bounds[p].max THEN Bounds[p].max
               ELSE params[p]
          ELSE params[p]]

\* A rate check against the window's origin instead of the last update.
RateLimitedByWindow(current_time_us) ==
    current_time_us < window_start_us + MinIntervalUs

\* check_rate_limit line 127: the update comes too soon after the last one
RateLimited(current_time_us) ==
    current_time_us < last_update_us + MinIntervalUs

\* check_rate_limit line 128-139: the violation, with the rate's numerator
\* and denominator (updates_in_window over the window's elapsed time)
RateViolation(current_time_us) ==
    Result("RateLimitExceeded",
           <<updates_in_window, SaturatingSub(current_time_us, window_start_us),
             MaxUpdatesPerSecond>>)

\* record_update: the executor's three fields after an update at current_time_us
RecordUpdate(current_time_us) ==
    LET reset == current_time_us > window_start_us + RateWindowUs IN
    [window_start_us |-> IF reset THEN current_time_us ELSE window_start_us,
     updates_in_window |-> (IF reset THEN 0 ELSE updates_in_window) + 1,
     last_update_us |-> current_time_us]

(***************************************************************************)
(* Control safety (control_safety.rs)                                      *)
(***************************************************************************)
SafeModeReasons == {"Thrashing", "AuditQueueFull"}

\* enter_safe_mode: the latch, always with a Timer exit
EnterSafeModeLatch(reason, now_us, cooldown_us) ==
    Some([entered_at_us |-> now_us, reason |-> reason, remaining_us |-> cooldown_us])

\* A timer poll that measures from time 0 instead of from the latch.
TryExitFromEpoch(mode, now_us) ==
    IF mode # None /\ now_us >= Unwrap(mode).remaining_us THEN None ELSE mode

\* A timer poll that clears the latch whatever the time.
TryExitAtOnce(mode, now_us) == None

\* try_exit_safe_mode: the latch after a poll at now_us
TryExitSafeMode(mode, now_us) ==
    IF mode # None
        /\ SaturatingSub(now_us, Unwrap(mode).entered_at_us) >= Unwrap(mode).remaining_us
      THEN None
      ELSE mode

\* check_proposal: the timer poll; it returns Ok(()) latched or not, so the
\* caller learns the latch from is_safe_mode()
CheckProposal(mode, now_us) == TryExitSafeMode(mode, now_us)

\* is_safe_mode
IsSafeMode(mode) == mode # None

(***************************************************************************)
(* The executor's apply and rollback, and the engine (mod.rs)              *)
(***************************************************************************)
\* The deltas a proposal may carry: "z" is not in the allowlist.
DeltaVals == {-1, 1, 2}
Deltas ==
    [{"x"} -> DeltaVals]
        \cup {[x |-> 1, y |-> -1], [x |-> 1, y |-> 1], [x |-> -1, y |-> 2], [x |-> 2, y |-> 1]}
        \cup {[z |-> 1], [z |-> 2], [x |-> 1, z |-> 1]}
Proposals ==
    {[kind |-> k, delta |-> d] : k \in {"Update"}, d \in Deltas}
        \cup {[kind |-> "NoChange", delta |-> <<>>]}

\* new_i = current_i + delta_i
ApplyDelta(current, delta) ==
    [p \in DOMAIN current |->
        IF p \in DOMAIN delta THEN current[p] + delta[p] ELSE current[p]]

\* What a call of the executor leaves: its result, the cell, its own fields
\* and the latch.
Outcome(result, cell, exe, mode) ==
    [result |-> result, cell |-> cell, exe |-> exe, safe_mode |-> mode]

ExeFields ==
    [window_start_us |-> window_start_us, updates_in_window |-> updates_in_window,
     last_update_us |-> last_update_us]

\* A rejection that has already written the entries of the delta that pass.
PartlyAppliedCell(proposal) ==
    LET good == {p \in DOMAIN proposal.delta :
                    ParamViolation(inner.params, p, proposal.delta[p]) = None}
        part == [p \in good |-> proposal.delta[p]]
    IN IF good = {} THEN Cell
       ELSE SwapCell(Cell, ClampToBounds(ApplyDelta(inner.params, part)))

\* The cell a rejected apply leaves: the gates run before anything is written
RejectedCell(proposal) == Cell

\* SafeExecutor::apply, the possible outcomes of one call at time now:
\* NoChange returns Ok at once; then the time gate, the per-parameter gates,
\* the control-safety consultation (a latched SafeMode makes the call a no-op
\* that returns Ok), the clamp, the swap and the record of the update.
ExecutorApply(proposal) ==
    IF proposal.kind = "NoChange"
      THEN {Outcome(Result("Ok", <<generation>>), Cell, ExeFields, safe_mode)}
    ELSE IF RateLimited(now)
      THEN {Outcome(RateViolation(now), Cell, ExeFields, safe_mode)}
    ELSE IF ValidateDelta(inner.params, proposal.delta) # {}
      THEN {Outcome(v, [RejectedCell(proposal) EXCEPT !.ret = None], ExeFields, safe_mode)
              : v \in ValidateDelta(inner.params, proposal.delta)}
    ELSE IF IsSafeMode(CheckProposal(safe_mode, now))
      THEN {Outcome(Result("Ok", <<generation>>), Cell, ExeFields,
                    CheckProposal(safe_mode, now))}
    ELSE LET swapped == SwapCell(Cell, ClampToBounds(ApplyDelta(inner.params, proposal.delta)))
         IN {Outcome(Result("Ok", <<Unwrap(swapped.ret)>>), swapped, RecordUpdate(now),
                     CheckProposal(safe_mode, now))}

\* SafeExecutor::rollback: NoBaseline when the cell has no baseline
ExecutorRollback ==
    LET rolled == RollbackCell(Cell) IN
    IF rolled.ret = None
      THEN Outcome(Result("NoBaseline", <<>>), rolled, ExeFields, safe_mode)
      ELSE Outcome(Result("Ok", <<Unwrap(rolled.ret)>>), rolled, ExeFields, safe_mode)

\* AuditEvent::new(...).with_payload(...): the event's type and payload (its
\* timestamp, run id, config version and proposal id are not modelled)
AuditEvent(event_type, config_version, payload) ==
    [event_type |-> event_type, payload |-> payload]

\* The record of a call: what it met before it ran, what it returned.
Called(op) ==
    [op |-> op, kind |-> "None", delta |-> <<>>,
     result |-> Result("None", <<>>),
     pre |-> inner, preGen |-> generation, preLastUpdate |-> last_update_us,
     preOkAt |-> okAt, preBaseline |-> baseline, preIteration |-> sp.k, preSpsa |-> sp,
     preMode |-> safe_mode, preLatched |-> FALSE, propEnq |-> "None", applyEnq |-> "None"]

\* The latch holds at now_us and its timer has not run out.
LatchedAt(mode, now_us) ==
    mode # None /\ SaturatingSub(now_us, Unwrap(mode).entered_at_us) < Unwrap(mode).remaining_us

\* AdaptiveEngine::new(config, initial_params): nothing holds the initial
\* vector to the bounds, and y starts above its maximum.
EngineParams == [x |-> 1, y |-> 2]

InitEngine ==
    /\ ExtIdle
    /\ inner = NewSnapshot(EngineParams)
    /\ generation = 0
    /\ baseline = None
    /\ pc = [w \in Writers |-> "idle"]
    /\ tl = [w \in Writers |-> IdleLocals]
    /\ seen = [r \in Readers |-> [prev |-> NewSnapshot(InitialParams),
                                  cur |-> NewSnapshot(InitialParams)]]
    /\ published = {}
    /\ queue = <<>>
    /\ AudIdle
    /\ now = 0
    /\ last_update_us = 0
    /\ updates_in_window = 0
    /\ window_start_us = 0
    /\ safe_mode = None
    /\ nPub = 0
    /\ okAt = -1
    /\ last = Called("new")

SetOutcome(o) ==
    /\ inner' = o.cell.inner
    /\ generation' = o.cell.generation
    /\ baseline' = o.cell.baseline
    /\ last_update_us' = o.exe.last_update_us
    /\ updates_in_window' = o.exe.updates_in_window
    /\ window_start_us' = o.exe.window_start_us
    /\ safe_mode' = o.safe_mode
    /\ nPub' = IF o.cell.ret # None THEN nPub + 1 ELSE nPub

\* AdaptiveEngine::apply: the Proposal event; Full returns AuditQueueFull
\* before the executor is called; else the executor's apply, then the Apply
\* event, whose enqueue result is dropped, and the executor's result
Apply(proposal) ==
    /\ generation < MaxGen
    /\ IF EnqueueResult(queue) = "Full"
         THEN /\ last' = [Called("apply") EXCEPT
                             !.kind = proposal.kind, !.delta = proposal.delta,
                             !.result = Result("AuditQueueFull", <<>>),
                             !.preLatched = LatchedAt(safe_mode, now),
                             !.propEnq = "Full"]
              /\ UNCHANGED <<cfgVars, queue, exeVars, safe_mode, nPub, okAt>>
         ELSE \E o \in ExecutorApply(proposal) :
              LET q1 == QueuePush(queue, AuditEvent("Proposal", generation, ""))
                  payload == IF o.result.tag = "Ok" THEN "success" ELSE "violation"
              IN /\ SetOutcome(o)
                 /\ okAt' = IF o.cell.ret # None THEN now ELSE okAt
                 /\ queue' = QueuePush(q1, AuditEvent("Apply", o.cell.generation, payload))
                 /\ last' = [Called("apply") EXCEPT
                                !.kind = proposal.kind, !.delta = proposal.delta,
                                !.result = o.result,
                                !.preLatched = LatchedAt(safe_mode, now),
                                !.propEnq = EnqueueResult(queue),
                                !.applyEnq = EnqueueResult(q1)]
    /\ UNCHANGED <<thrVars, audVars, now, extVars>>

\* AdaptiveEngine::rollback: the Rollback event, whose enqueue result is
\* dropped, then the executor's rollback
Rollback ==
    /\ generation < MaxGen
    /\ SetOutcome(ExecutorRollback)
    /\ queue' = QueuePush(queue, AuditEvent("Rollback", generation, ""))
    /\ last' = [Called("rollback") EXCEPT !.result = ExecutorRollback.result]
    /\ UNCHANGED <<thrVars, audVars, now, okAt, extVars>>

\* AdaptiveEngine::set_baseline
SetBaseline ==
    /\ baseline' = SetBaselineCell(Cell).baseline
    /\ last' = Called("set_baseline")
    /\ UNCHANGED <<inner, generation, thrVars, queue, audVars, now, exeVars, safe_mode, nPub, okAt, extVars>>

\* audit_queue().drain(), by the audit sink
Drain ==
    /\ queue # <<>>
    /\ queue' = <<>>
    /\ last' = Called("drain")
    /\ UNCHANGED <<cfgVars, thrVars, audVars, now, exeVars, safe_mode, nPub, okAt, extVars>>

\* ControlSafety::enter_safe_mode, as record_delta and record_objective call
\* it (with cooldown_after_flip_us) or an operator does
EnterSafeMode(reason) ==
    /\ safe_mode' = EnterSafeModeLatch(reason, now, CooldownAfterFlipUs)
    /\ last' = Called("enter_safe_mode")
    /\ UNCHANGED <<cfgVars, thrVars, queue, audVars, now, exeVars, nPub, okAt, extVars>>

\* ControlSafety::reset_safe_mode
ResetSafeMode ==
    /\ safe_mode # None
    /\ safe_mode' = None
    /\ last' = Called("reset_safe_mode")
    /\ UNCHANGED <<cfgVars, thrVars, queue, audVars, now, exeVars, nPub, okAt, extVars>>

\* The clock advances.
Tick ==
    /\ now < MaxTime
    /\ now' = now + 1
    /\ last' = Called("tick")
    /\ UNCHANGED <<cfgVars, thrVars, queue, audVars, exeVars, safe_mode, nPub, okAt, extVars>>

Next ==
    \/ \E proposal \in Proposals : Apply(proposal)
    \/ Rollback
    \/ SetBaseline
    \/ Drain
    \/ \E reason \in SafeModeReasons : EnterSafeMode(reason)
    \/ ResetSafeMode
    \/ Tick

Spec == InitEngine /\ [][Next]_vars

(***************************************************************************)
(* Properties of the engine (specification Spec)                           *)
(***************************************************************************)
\* The apply that has just returned.
Applied == last.op = "apply"

\* The apply that has just returned left the cell as it met it.
ConfigUntouched == inner = last.pre /\ generation = last.preGen

\* The apply that has just returned published a snapshot.
Published == generation # last.preGen

\* The call was let through by the gates that run before the consultation of
\* the latch: the time gate and the per-parameter gates.
PassedGates ==
    \/ last.kind = "NoChange"
    \/ /\ ~(now < last.preLastUpdate + MinIntervalUs)
       /\ ValidateDelta(last.pre.params, last.delta) = {}

C4_GenerationGapFree ==
    /\ generation = nPub
    /\ inner.generation = generation
    /\ last.op = "new" => generation = 0
    /\ (last.op \in {"apply", "rollback"} /\ Published) =>
           /\ generation = last.preGen + 1
           /\ last.result = Result("Ok", <<generation>>)

\* A rollback has published after two swaps.
C4_Witness ==
    /\ last.op = "rollback"
    /\ last.result.tag = "Ok"
    /\ nPub = 3
    /\ inner.params # last.pre.params

\* C6, as stated: an apply whose Apply event the audit queue rejected never
\* returns Ok after having changed the configuration.
C6_NoChangeWithoutApplyEvent ==
    (Applied /\ Published) =>
        (last.applyEnq # "Full" \/ last.result.tag = "AuditQueueFull")

\* C7, as stated: an apply one of whose audit events meets a full queue
\* returns AuditQueueFull and leaves SafeMode latched with that reason.
C7_FullQueueLatchesSafeMode ==
    (Applied /\ (last.propEnq = "Full" \/ last.applyEnq = "Full")) =>
        /\ last.result.tag = "AuditQueueFull"
        /\ LatchedAt(safe_mode, now)
        /\ Unwrap(safe_mode).reason = "AuditQueueFull"

\* Every parameter that has bounds lies within them.
InBounds(params) ==
    \A p \in DOMAIN params \cap DOMAIN Bounds :
        Bounds[p].min <= params[p] /\ params[p] <= Bounds[p].max

\* The parameters of the delta that it would take outside their bounds.
Offending(current, delta) ==
    {p \in DOMAIN delta \cap DOMAIN Bounds \cap DOMAIN current :
        current[p] + delta[p] < Bounds[p].min \/ current[p] + delta[p] > Bounds[p].max}

\* The OutOfBounds violation of parameter p under the delta.
OutOfBoundsOf(current, delta, p) ==
    Result("OutOfBounds", <<p, current[p] + delta[p], Bounds[p].min, Bounds[p].max>>)

\* The checks that run before the bounds check let the delta through: every
\* parameter of the delta is in the allowlist and changes by no more than
\* max_delta_per_step.
KnownAndSmall(delta) ==
    \A p \in DOMAIN delta :
        p \in ParamNames /\ delta[p] <= MaxDeltaPerStep /\ -delta[p] <= MaxDeltaPerStep

\* C8, as stated: after every successful apply each bounded parameter lies
\* within its bounds, and a delta that would take a bounded parameter outside
\* its interval is rejected with OutOfBounds carrying the offending value and
\* the bounds.
C8_OutOfBoundsAlwaysReported ==
    Applied =>
        /\ (last.result.tag = "Ok" /\ Published) => InBounds(inner.params)
        /\ (last.kind = "Update" /\ Offending(last.pre.params, last.delta) # {}) =>
               \E p \in Offending(last.pre.params, last.delta) :
                   last.result = OutOfBoundsOf(last.pre.params, last.delta, p)

\* C8, amended: after every successful apply each bounded parameter lies
\* within its bounds; a delta that would take a bounded parameter outside its
\* interval is rejected and changes nothing, and the rejection is OutOfBounds
\* with the offending value and the bounds when the checks that run first let
\* the call through (the Proposal event is accepted, the time gate passes,
\* every parameter of the delta is known and within max_delta_per_step).
C8_BoundsSafety ==
    Applied =>
        /\ (last.result.tag = "Ok" /\ Published) => InBounds(inner.params)
        /\ (last.kind = "Update" /\ Offending(last.pre.params, last.delta) # {}) =>
               /\ last.result.tag # "Ok"
               /\ ConfigUntouched
               /\ (/\ last.propEnq # "Full"
                   /\ ~(now < last.preLastUpdate + MinIntervalUs)
                   /\ KnownAndSmall(last.delta)) =>
                      \E p \in Offending(last.pre.params, last.delta) :
                          last.result = OutOfBoundsOf(last.pre.params, last.delta, p)

\* A delta of two parameters, one of which would leave its bounds, has been
\* rejected with OutOfBounds, after an apply that brought a parameter which
\* started outside its bounds back into them.
C8_Witness ==
    /\ Applied
    /\ last.result.tag = "OutOfBounds"
    /\ Cardinality(DOMAIN last.delta) = 2
    /\ Cardinality(Offending(last.pre.params, last.delta)) = 1
    /\ nPub >= 1
    /\ ~InBounds(EngineParams)
    /\ InBounds(inner.params)

\* C9: two consecutive successful applies are at least min_interval_us
\* apart; an apply of a delta that reaches the executor sooner than
\* min_interval_us after the last successful one is rejected with
\* RateLimitExceeded and moves neither the last-apply time nor the
\* configuration.
C9_RateSafety ==
    Applied =>
        /\ (Published /\ last.preOkAt >= 0) => now - last.preOkAt >= MinIntervalUs
        /\ Published => (okAt = now /\ last_update_us = now)
        /\ last.preOkAt >= 0 => last.preLastUpdate = last.preOkAt
        /\ (/\ last.kind = "Update" /\ last.propEnq # "Full"
            /\ last.preOkAt >= 0 /\ now - last.preOkAt < MinIntervalUs) =>
               /\ last.result.tag = "RateLimitExceeded"
               /\ last_update_us = last.preLastUpdate
               /\ okAt = last.preOkAt
               /\ ConfigUntouched

\* An apply that came sooner than min_interval_us after the second of two
\* successful applies has been rejected with RateLimitExceeded.
C9_Witness ==
    /\ Applied
    /\ last.result.tag = "RateLimitExceeded"
    /\ last.preOkAt >= MinIntervalUs
    /\ now - last.preOkAt < MinIntervalUs
    /\ nPub = 2
    /\ baseline = None

\* C10: an apply that returns DeltaTooLarge, OutOfBounds, RateLimitExceeded
\* or UnknownParameter leaves the live snapshot's parameters and generation
\* as they were before the call, also when only one of several parameters of
\* the delta violates a gate.
C10_ViolationLeavesConfig ==
    (Applied /\ last.result.tag \in ViolationTags) =>
        /\ ConfigUntouched
        /\ inner.generation = last.pre.generation
        /\ inner.params = last.pre.params

\* A delta of two parameters, exactly one of which fails a gate, has been
\* rejected after an earlier apply had published.
C10_Witness ==
    /\ Applied
    /\ last.result.tag \in ViolationTags \ {"RateLimitExceeded"}
    /\ Cardinality(DOMAIN last.delta) = 2
    /\ Cardinality({p \in DOMAIN last.delta :
                       ParamViolation(last.pre.params, p, last.delta[p]) # None}) = 1
    /\ nPub >= 1

\* C11: set_baseline captures the live snapshot; every later successful
\* rollback publishes the params of the captured snapshot under the previous
\* generation plus 1; and no call but set_baseline changes or clears the
\* baseline, rollback included.
C11_RollbackRestoresBaseline ==
    /\ last.op = "set_baseline" => baseline = Some(last.pre)
    /\ last.op # "set_baseline" => baseline = last.preBaseline
    /\ (last.op = "rollback" /\ last.result.tag = "Ok") =>
           /\ last.preBaseline # None
           /\ inner.params = Unwrap(last.preBaseline).params
           /\ inner.generation = last.pre.generation + 1
           /\ generation = last.preGen + 1

\* A rollback has restored the baseline taken at generation 0 after two
\* swaps had moved the parameters away from it.
C11_Witness ==
    /\ last.op = "rollback"
    /\ last.result.tag = "Ok"
    /\ baseline # None
    /\ Unwrap(baseline).generation = 0
    /\ last.pre.generation = 2
    /\ last.pre.params # inner.params

\* C12: rollback with no baseline returns NoBaseline and leaves the live
\* snapshot, the generation counter and the empty baseline slot as they were.
C12_RollbackWithoutBaseline ==
    (last.op = "rollback" /\ last.preBaseline = None) =>
        /\ last.result.tag = "NoBaseline"
        /\ inner = last.pre
        /\ generation = last.preGen
        /\ baseline = None
        /\ nPub = generation

\* A rollback without a baseline has returned NoBaseline after a swap.
C12_Witness ==
    /\ last.op = "rollback"
    /\ last.result.tag = "NoBaseline"
    /\ last.preGen >= 1

(***************************************************************************)
(* SpecArc: the Arc handles of one AtomicConfig (config_atomic.rs).  A     *)
(* snapshot lives at an address; inner, baseline and every handle that     *)
(* snapshot() returned hold addresses.  The calls run one after another.   *)
(***************************************************************************)
\* SpecCfg, SpecAudit and Spec do not run.
CoreIdle ==
    /\ CfgIdle
    /\ queue = <<>>
    /\ AudIdle
    /\ EngIdle

\* Arc::new(snapshot): the heap with the snapshot at a fresh address
ArcNew(h, snapshot) == Append(h, snapshot)

\* A store that writes the new snapshot over the one inner points at.
ArcStoreInPlace(h, l, new_snapshot) ==
    [heap |-> [h EXCEPT ![l] = new_snapshot], live |-> l]

\* *self.inner.write().unwrap() = Arc::new(new_snapshot): inner is pointed at
\* a fresh allocation, the old allocation is left as it is
ArcStore(h, l, new_snapshot) ==
    [heap |-> ArcNew(h, new_snapshot), live |-> Len(h) + 1]

\* AtomicConfig::new(params)
InitArc ==
    /\ ObsIdle
    /\ CsIdle
    /\ MoreIdle
    /\ CoreIdle
    /\ heap = ArcNew(<<>>, NewSnapshot(InitialParams))
    /\ live = 1
    /\ base = None
    /\ held = {}
    /\ baseWas = None
    /\ TwinIdle

\* snapshot(): a clone of the Arc in inner; the caller keeps the handle
ArcSnapshot ==
    /\ held' = held \cup {[addr |-> live, was |-> heap[live]]}
    /\ UNCHANGED <<coreVars, heap, live, base, baseWas, twinVars, obsVars, csVars, moreVars>>

\* swap(new_params)
ArcSwap(new_params) ==
    /\ heap[live].generation < MaxGen
    /\ LET new_gen == FetchAdd(heap[live].generation)
           stored == ArcStore(heap, live, WithGeneration(new_params, new_gen))
       IN /\ heap' = stored.heap
          /\ live' = stored.live
    /\ UNCHANGED <<coreVars, base, held, baseWas, twinVars, obsVars, csVars, moreVars>>

\* set_baseline(): the handle snapshot() returns goes into the baseline slot
ArcSetBaseline ==
    /\ base' = Some(live)
    /\ baseWas' = Some(heap[live])
    /\ UNCHANGED <<coreVars, heap, live, held, twinVars, obsVars, csVars, moreVars>>

\* rollback(): a new snapshot built from a clone of the baseline's params
ArcRollback ==
    /\ base # None
    /\ heap[live].generation < MaxGen
    /\ LET new_gen == FetchAdd(heap[live].generation)
           stored == ArcStore(heap, live,
                              WithGeneration(heap[Unwrap(base)].params, new_gen))
       IN /\ heap' = stored.heap
          /\ live' = stored.live
    /\ UNCHANGED <<coreVars, base, held, baseWas, twinVars, obsVars, csVars, moreVars>>

NextArc ==
    \/ ArcSnapshot
    \/ \E new_params \in SwapParams : ArcSwap(new_params)
    \/ ArcSetBaseline
    \/ ArcRollback

SpecArc == InitArc /\ [][NextArc]_vars

\* C13: every handle snapshot() has returned still shows the params and the
\* generation it showed when it was returned, and the snapshot in the
\* baseline slot still shows what it showed when set_baseline captured it,
\* whatever swaps, rollbacks and set_baselines have run since.
C13_SnapshotsImmutable ==
    /\ \A h \in held : heap[h.addr] = h.was
    /\ base # None => heap[Unwrap(base)] = Unwrap(baseWas)

\* A handle and the baseline, both taken at generation 0, are held while a
\* swap and a rollback have since published generations 1 and 2.
C13_Witness ==
    /\ \E h \in held : h.was.generation = 0 /\ heap[live].generation = 2
    /\ base # None /\ Unwrap(baseWas).generation = 0
    /\ \E a \in 1..Len(heap) : heap[a].params # InitialParams
    /\ heap[live].params = InitialParams

(***************************************************************************)
(* SpecTwin: two Spsa optimizers (spsa.rs) built from the same seed, rates *)
(* and bounds and stepped with the same objective values.                  *)
(***************************************************************************)
\* The optimizers stop after MaxK completed iterations.
MaxK == 2
\* The seeds, the objective values and the names in the bounds map.
Seeds == {1, 2}
Objectives == {0, 1, 2}
SpsaKeys == {"x", "y"}

\* The orders in which a HashMap holding SpsaKeys may hand out its keys: the
\* order depends on the map's own hasher state, not on its content.
KeyOrders == {<<"x", "y">>, <<"y", "x">>}

\* bernoulli.sample(&mut rng): the draw at a position of the stream that
\* ChaCha8Rng::seed_from_u64(seed) fixes
BernoulliSample(seed, pos) == (seed + pos) % 3 = 0

\* sign * ck at iteration k, kept as the sign and the iteration (ck decays
\* with k and is never zero)
SignedCk(sign, k) == <<"ck", k, sign>>

\* -ak * (y_plus - y_minus) / (2 * delta_k), for delta_k = sign * ck at
\* iteration k: kept as the iteration and the numerator's sign-weighted value
UpdateOf(y_plus, y_minus, delta_k) == <<"-ak*g", delta_k[2], -((y_plus - y_minus) * delta_k[3])>>

\* Spsa::new
NewSpsa(seed, keys) ==
    [seed |-> seed, pos |-> 0, keys |-> keys, k |-> 0,
     state |-> "Ready", perturbation |-> <<>>, y_plus |-> 0]

\* generate_perturbation: one draw per key, in the order bounds.keys() hands
\* the keys out
GeneratePerturbation(o) ==
    [name \in SpsaKeys |->
        LET i == CHOOSE j \in 1..Len(o.keys) : o.keys[j] = name
        IN SignedCk(IF BernoulliSample(o.seed, o.pos + i - 1) THEN 1 ELSE -1, o.k)]

\* step(objective_value): the optimizer after the call and what it returns
SpsaStep(o, objective_value) ==
    CASE o.state = "Ready" ->
           [spsa |-> [o EXCEPT !.state = "WaitingPlus",
                               !.perturbation = GeneratePerturbation(o),
                               !.pos = o.pos + Len(o.keys)],
            ret |-> None]
      [] o.state = "WaitingPlus" ->
           [spsa |-> [o EXCEPT !.state = "WaitingMinus", !.y_plus = objective_value],
            ret |-> None]
      [] o.state = "WaitingMinus" ->
           [spsa |-> [o EXCEPT !.state = "Ready", !.k = o.k + 1],
            ret |-> Some([name \in SpsaKeys |->
                            UpdateOf(o.y_plus, objective_value, o.perturbation[name])])]

\* Two optimizers built with the same seed; each holds a bounds map of its
\* own with the same content.
InitTwin ==
    /\ ObsIdle
    /\ CsIdle
    /\ MoreIdle
    /\ CoreIdle
    /\ ArcIdle
    /\ \E seed \in Seeds : \E ka \in KeyOrders, kb \in KeyOrders :
           twins = [a |-> NewSpsa(seed, ka), b |-> NewSpsa(seed, kb)]
    /\ emitted = [a |-> None, b |-> None]

\* Both optimizers are stepped with the same objective value.
TwinStep(objective_value) ==
    /\ twins.a.k < MaxK
    /\ twins' = [t \in {"a", "b"} |-> SpsaStep(twins[t], objective_value).spsa]
    /\ emitted' = [t \in {"a", "b"} |-> SpsaStep(twins[t], objective_value).ret]
    /\ UNCHANGED <<coreVars, arcVars, obsVars, csVars, moreVars>>

NextTwin == \E objective_value \in Objectives : TwinStep(objective_value)

SpecTwin == InitTwin /\ [][NextTwin]_vars

\* What of an optimizer its caller can observe: its state machine, its
\* perturbation and its counters, not the order its map iterates in.
Observable(o) == [o EXCEPT !.keys = <<>>]

\* C14, as stated: two optimizers built with the same seed and configuration
\* and fed the same objective values emit the same proposals and are in the
\* same state after each step, whatever the iteration order of their maps.
C14_SameSeedSameProposals ==
    /\ emitted.a = emitted.b
    /\ Observable(twins.a) = Observable(twins.b)


(***************************************************************************)
(* The proposer: the dense Spsa behind AdaptiveEngine::observe (mod.rs)    *)
(* and behind SpsaProposer::observe (hotpath orchestrator.rs)              *)
(***************************************************************************)
\* SpsaConfig.min_samples_per_window
MinSamplesPerWindow == 2
\* SpsaConfig.max_window_duration_us, in ticks
MaxWindowDurationUs == 1
\* AdaptiveEngineConfig.telemetry_buffer_capacity
TelemetryCap == 2
\* AdaptiveEngineConfig.seed
EngineSeed == 2
\* num_params = initial_params.len(): ParamVec is dense, one slot per parameter
NumParams == Cardinality(ParamNames)

\* A value n/(2 c_k) scaled by tag: zero whatever the scale
Scaled(tag, k, n) == IF n = 0 THEN <<"0", 0, 0>> ELSE <<tag, k, n>>
\* g_i = (y_plus - y_minus) / (2 delta_i), delta_i = sign c_k; the means are
\* kept as sums over min_samples_per_window samples
GradientOf(y_plus, y_minus, delta_i) ==
    Scaled("g", delta_i[2], (y_plus - y_minus) * delta_i[3])
\* update_i = -a_k g_i
UpdateDeltaOf(y_plus, y_minus, delta_i) ==
    Scaled("-ak*g", delta_i[2], -((y_plus - y_minus) * delta_i[3]))
\* delta.iter().map(|&d| -d)
Negated(delta) == [i \in DOMAIN delta |-> <<delta[i][1], delta[i][2], -delta[i][3]>>]

\* Spsa::generate_perturbation: delta = c_k s, one Bernoulli draw per slot
DensePerturbation(o) ==
    [i \in 1..NumParams |->
        SignedCk(IF BernoulliSample(EngineSeed, o.pos + i - 1) THEN 1 ELSE -1, o.k)]
AfterPerturbation(o) == [o EXCEPT !.pos = o.pos + NumParams]

\* Spsa::start_plus_perturbation: WaitingPlus{id = perturb++, delta,
\* samples = 0, started}
StartPlusPerturbation(o, delta, now_us) ==
    [o EXCEPT !.state = "WaitingPlus", !.perturbation_id = o.perturbation_counter,
              !.delta = delta, !.samples = 0, !.sum = 0, !.y_plus = 0,
              !.started_us = now_us,
              !.perturbation_counter = o.perturbation_counter + 1]

\* A record that counts no sample.
RecordNothing(o, value) == o

\* Spsa::record_objective: into the accumulator of the open window
RecordObjective(o, value) ==
    IF o.state = "Ready" THEN o
    ELSE [o EXCEPT !.samples = o.samples + 1, !.sum = o.sum + value]

\* The perturbation is dropped: Ready, k as it was
AbortPerturbation(o) ==
    [o EXCEPT !.state = "Ready", !.perturbation_id = 0, !.delta = <<>>,
              !.y_plus = 0, !.samples = 0, !.sum = 0, !.started_us = 0]

\* The eval window is older than max_window_duration_us.
NeverExceeded(o, now_us) == FALSE
EvalWindowExceeded(o, now_us) ==
    o.state # "Ready" /\ SaturatingSub(now_us, o.started_us) > MaxWindowDurationUs

\* Spsa::has_enough_samples, with the timer's poll: a window that has
\* exceeded its duration is aborted and has no samples
HasEnoughSamples(o, now_us) ==
    IF EvalWindowExceeded(o, now_us)
      THEN [spsa |-> AbortPerturbation(o), ret |-> FALSE]
      ELSE [spsa |-> o, ret |-> o.state # "Ready" /\ o.samples >= MinSamplesPerWindow]

\* Spsa::complete_eval_window: the plus window closes into WaitingMinus and
\* returns None; the minus window computes (gradient, update), increments k
\* and returns to Ready
CompleteEvalWindowCountingBoth(o, now_us) ==
    IF o.state = "WaitingPlus"
      THEN [spsa |-> [o EXCEPT !.state = "WaitingMinus", !.y_plus = o.sum,
                               !.samples = 0, !.sum = 0, !.started_us = now_us,
                               !.k = o.k + 1],
            ret |-> None]
      ELSE [spsa |-> [AbortPerturbation(o) EXCEPT !.k = o.k + 1],
            ret |-> Some([gradient |-> [i \in DOMAIN o.delta |->
                                           GradientOf(o.y_plus, o.sum, o.delta[i])],
                          update |-> [i \in DOMAIN o.delta |->
                                           UpdateDeltaOf(o.y_plus, o.sum, o.delta[i])]])]
CompleteEvalWindow(o, now_us) ==
    IF o.state = "WaitingPlus"
      THEN [spsa |-> [o EXCEPT !.state = "WaitingMinus", !.y_plus = o.sum,
                               !.samples = 0, !.sum = 0, !.started_us = now_us],
            ret |-> None]
      ELSE [spsa |-> [AbortPerturbation(o) EXCEPT !.k = o.k + 1],
            ret |-> Some([gradient |-> [i \in DOMAIN o.delta |->
                                           GradientOf(o.y_plus, o.sum, o.delta[i])],
                          update |-> [i \in DOMAIN o.delta |->
                                           UpdateDeltaOf(o.y_plus, o.sum, o.delta[i])]])]

\* TelemetryRingBuffer::push
TelemetryPush(buffer, digest) ==
    Append(IF Len(buffer) >= TelemetryCap THEN Tail(buffer) ELSE buffer, digest)

\* The Proposal variants
ApplyPlus(perturbation_id, delta) ==
    [kind |-> "ApplyPlus", perturbation_id |-> perturbation_id, delta |-> delta,
     iteration |-> -1, gradient_estimate |-> <<>>, reason |-> "None"]
\* An ApplyMinus that goes out under the kind of an ApplyPlus.
ApplyMinusAsPlus(perturbation_id, delta) == ApplyPlus(perturbation_id, delta)
ApplyMinus(perturbation_id, delta) ==
    [kind |-> "ApplyMinus", perturbation_id |-> perturbation_id, delta |-> delta,
     iteration |-> -1, gradient_estimate |-> <<>>, reason |-> "None"]
Update(iteration, delta, gradient_estimate) ==
    [kind |-> "Update", perturbation_id |-> -1, delta |-> delta,
     iteration |-> iteration, gradient_estimate |-> gradient_estimate, reason |-> "None"]
NoChange(reason) ==
    [kind |-> "NoChange", perturbation_id |-> -1, delta |-> <<>>,
     iteration |-> -1, gradient_estimate |-> <<>>, reason |-> reason]

\* What an observe leaves in the proposer, and the proposal it returns
Observed(spsa, proposal) == [spsa |-> spsa, proposal |-> proposal]

\* observe's match on proposer.state().clone() (mod.rs)
EngineMatch(o, value, now_us) ==
    IF o.state = "Ready"
      THEN LET delta == DensePerturbation(o)
               started == StartPlusPerturbation(AfterPerturbation(o), delta, now_us)
           IN Observed(started, ApplyPlus(started.k, delta))
      ELSE LET sampled == RecordObjective(o, value)
               enough == HasEnoughSamples(sampled, now_us)
               done == CompleteEvalWindow(enough.spsa, now_us)
           IN IF ~enough.ret
                THEN Observed(enough.spsa, NoChange("EvalTimeout"))
                ELSE IF o.state = "WaitingPlus"
                  THEN Observed(done.spsa, ApplyMinus(o.perturbation_id, Negated(o.delta)))
                  ELSE IF done.ret # None
                    THEN Observed(done.spsa,
                                  Update(done.spsa.k - 1, Unwrap(done.ret).update,
                                         Unwrap(done.ret).gradient))
                    ELSE Observed(done.spsa, NoChange("EvalTimeout"))

\* The record of an observe: the proposer it met, what it returned, and the
\* ApplyPlus that opened the cycle it belongs to
ObserveRecord(objective_value, proposal, enqueued) ==
    [op |-> "observe", pre |-> sp, at |-> now, value |-> objective_value,
     enqueued |-> enqueued, proposal |-> proposal,
     opened |-> IF proposal.kind = "ApplyPlus" THEN Some(proposal) ELSE out.opened]

\* AdaptiveEngine::observe: the Digest event; Full returns NoChange{SafeMode}
\* before anything else; else the digest is buffered and the proposer steps
Observe(objective_value) ==
    /\ sp.k < MaxK
    /\ IF EnqueueResult(queue) = "Full"
         THEN /\ out' = ObserveRecord(objective_value, NoChange("SafeMode"), "Full")
              /\ UNCHANGED <<queue, sp, telemetry>>
         ELSE LET r == EngineMatch(sp, objective_value, now)
              IN /\ queue' = QueuePush(queue, AuditEvent("Digest", generation, ""))
                 /\ telemetry' = TelemetryPush(telemetry, objective_value)
                 /\ sp' = r.spsa
                 /\ out' = ObserveRecord(objective_value, r.proposal, EnqueueResult(queue))
    /\ last' = Called("observe")
    /\ UNCHANGED <<cfgVars, thrVars, audVars, now, exeVars, safe_mode, nPub, okAt,
                   arcVars, twinVars, current_delta, csVars, moreVars>>

\* digest.objective_value of the digests the engine observes
ObsObjectives == {0, 1}

\* The adaptation loop: digests observed, the audit sink draining
NextObs ==
    \/ \E objective_value \in ObsObjectives : Observe(objective_value)
    \/ Drain
    \/ Tick

SpecObs == InitEngine /\ [][NextObs]_vars

\* The proposal the caller hands to apply between observes
ObsProposals == {[kind |-> "Update", delta |-> [x |-> 1]]}
\* The engine's calls between observes, until MaxObsGen configurations
\* have been published
MaxObsGen == 1
ObsApply(proposal) == generation < MaxObsGen /\ Apply(proposal)
ObsRollback == generation < MaxObsGen /\ Rollback
ObsSetBaseline == generation < MaxObsGen /\ SetBaseline
\* The objective value is the same in every digest.
CallObjectives == {1}

\* The adaptation loop with the engine's other calls in between
NextCalls ==
    \/ \E objective_value \in CallObjectives : Observe(objective_value)
    \/ \E proposal \in ObsProposals : ObsApply(proposal)
    \/ ObsRollback
    \/ ObsSetBaseline
    \/ Drain
    \/ Tick

SpecCalls == InitEngine /\ [][NextCalls]_vars

(***************************************************************************)
(* SpsaProposer of the hotpath crate (orchestrator.rs)                     *)
(***************************************************************************)
\* What SpsaProposer::observe leaves and returns
HotObserved(spsa, delta, proposal) ==
    [spsa |-> spsa, current_delta |-> delta, proposal |-> proposal]

\* ProposalError::InternalError("No delta available")
InternalError ==
    [kind |-> "InternalError", perturbation_id |-> -1, delta |-> <<>>,
     iteration |-> -1, gradient_estimate |-> <<>>, reason |-> "None"]

\* SpsaProposer::observe: record_objective first, then the match on
\* spsa.state()
ProposerMatch(o, cur, value, now_us) ==
    LET sampled == RecordObjective(o, value)
        enough == HasEnoughSamples(sampled, now_us)
        done == CompleteEvalWindow(enough.spsa, now_us)
    IN IF sampled.state = "Ready"
         THEN LET delta == DensePerturbation(sampled)
                  started == StartPlusPerturbation(AfterPerturbation(sampled), delta, now_us)
              IN HotObserved(started, Some(delta),
                             ApplyPlus(started.perturbation_counter, delta))
         ELSE IF ~enough.ret
           THEN HotObserved(enough.spsa, cur, NoChange("EvalTimeout"))
           ELSE IF sampled.state = "WaitingPlus"
             THEN IF cur # None
                    THEN HotObserved(done.spsa, cur,
                                     ApplyMinus(done.spsa.perturbation_counter,
                                                Negated(Unwrap(cur))))
                    ELSE HotObserved(done.spsa, cur, InternalError)
             ELSE IF done.ret # None
               THEN HotObserved(done.spsa, None,
                                Update(done.spsa.k, Unwrap(done.ret).update,
                                       Unwrap(done.ret).update))
               ELSE HotObserved(done.spsa, cur, NoChange("EvalTimeout"))

ProposerObserve(objective_value) ==
    /\ sp.k < MaxK
    /\ LET r == ProposerMatch(sp, current_delta, objective_value, now)
       IN /\ sp' = r.spsa
          /\ current_delta' = r.current_delta
          /\ out' = ObserveRecord(objective_value, r.proposal, "None")
    /\ last' = Called("observe")
    /\ UNCHANGED <<cfgVars, thrVars, queue, audVars, now, exeVars, safe_mode, nPub, okAt,
                   arcVars, twinVars, telemetry, csVars, moreVars>>

NextHot ==
    \/ \E objective_value \in Objectives : ProposerObserve(objective_value)
    \/ Tick

SpecHot == InitEngine /\ [][NextHot]_vars


(***************************************************************************)
(* Properties of the proposer                                              *)
(***************************************************************************)
\* C15: iteration() grows by one on each observe that returns Update, and is
\* left as it was by every observe that returns ApplyPlus, ApplyMinus or
\* NoChange, and by apply, rollback and set_baseline.
C15_IterationCountsUpdates ==
    /\ (last.op = "observe" /\ out.proposal.kind = "Update") =>
           sp.k = last.preIteration + 1
    /\ (last.op = "observe" /\ out.proposal.kind # "Update") =>
           sp.k = last.preIteration
    /\ last.op \in {"apply", "rollback", "set_baseline"} => sp.k = last.preIteration

\* The second Update of an engine that has applied a proposal in between.
C15_Witness ==
    /\ last.op = "observe"
    /\ out.proposal.kind = "Update"
    /\ sp.k = 2
    /\ generation >= 1

\* The move an observe made, the proposal it returned
Moved(from, to) == last.op = "observe" /\ out.pre.state = from /\ sp.state = to
Returned(kind) == last.op = "observe" /\ out.proposal.kind = kind
Stayed == last.op = "observe" /\ sp.state = out.pre.state

\* C16 as stated: the state only moves Ready to WaitingPlus to WaitingMinus
\* to Ready; every observe in Ready returns ApplyPlus and enters WaitingPlus,
\* WaitingPlus is left only with ApplyMinus and WaitingMinus only with
\* Update.
C16_StrictCycle ==
    /\ last.op = "observe" =>
           \/ Moved("Ready", "WaitingPlus")
           \/ Moved("WaitingPlus", "WaitingMinus")
           \/ Moved("WaitingMinus", "Ready")
           \/ (Stayed /\ sp.state # "Ready")
    /\ Moved("Ready", "WaitingPlus") => Returned("ApplyPlus")
    /\ Moved("WaitingPlus", "WaitingMinus") => Returned("ApplyMinus")
    /\ Moved("WaitingMinus", "Ready") => Returned("Update")
    /\ (Stayed /\ sp.state # "Ready") => Returned("NoChange")

\* C16: an observe moves the state along Ready, WaitingPlus, WaitingMinus,
\* Ready, or leaves it, or aborts a window that timed out back to Ready;
\* ApplyPlus is returned exactly on Ready to WaitingPlus, ApplyMinus exactly
\* on WaitingPlus to WaitingMinus, Update exactly on the WaitingMinus to Ready
\* move that increments k; an observe in Ready that does not return
\* ApplyPlus met a full audit queue and returned NoChange{SafeMode}; no
\* other call of the engine moves the state.
C16_CycleOrder ==
    /\ last.op = "observe" =>
           \/ Moved("Ready", "WaitingPlus")
           \/ Moved("WaitingPlus", "WaitingMinus")
           \/ Moved("WaitingMinus", "Ready")
           \/ Moved("WaitingPlus", "Ready")
           \/ Stayed
    /\ Returned("ApplyPlus") <=> Moved("Ready", "WaitingPlus")
    /\ Returned("ApplyMinus") <=> Moved("WaitingPlus", "WaitingMinus")
    /\ Returned("Update") <=> (Moved("WaitingMinus", "Ready") /\ sp.k = out.pre.k + 1)
    /\ (Moved("WaitingPlus", "Ready")
            \/ (Moved("WaitingMinus", "Ready") /\ sp.k = out.pre.k)) =>
           /\ out.proposal = NoChange("EvalTimeout")
           /\ SaturatingSub(out.at, out.pre.started_us) > MaxWindowDurationUs
    /\ (Stayed /\ sp.state = "Ready") =>
           /\ out.proposal = NoChange("SafeMode")
           /\ out.enqueued = "Full"
           /\ sp = out.pre
    /\ last.op \notin {"observe", "new"} => sp = last.preSpsa

\* A cycle completed after an earlier one was aborted.
C16_Witness ==
    /\ Returned("Update")
    /\ Moved("WaitingMinus", "Ready")
    /\ sp.perturbation_counter > sp.k

\* The gradient estimate and the update delta of the window that closed
GradientOfWindow ==
    [i \in DOMAIN out.pre.delta |->
        GradientOf(out.pre.y_plus, out.pre.sum + out.value, out.pre.delta[i])]
UpdateOfWindow ==
    [i \in DOMAIN out.pre.delta |->
        UpdateDeltaOf(out.pre.y_plus, out.pre.sum + out.value, out.pre.delta[i])]

\* C17: an Update carries the index of the iteration it completed, k - 1 as
\* read after the increment, the gradient estimate g in its gradient field
\* and the update delta -a_k g in its delta field.
C17_UpdateCarriesCompletedIteration ==
    Returned("Update") =>
        /\ out.proposal.iteration = sp.k - 1
        /\ out.proposal.iteration = out.pre.k
        /\ out.proposal.gradient_estimate = GradientOfWindow
        /\ out.proposal.delta = UpdateOfWindow

\* C18: the ApplyMinus of a cycle carries the perturbation id of the
\* ApplyPlus that opened the cycle, and the componentwise negation of its
\* delta.
C18_MinusMirrorsPlus ==
    Returned("ApplyMinus") =>
        /\ out.opened # None
        /\ out.proposal.perturbation_id = Unwrap(out.opened).perturbation_id
        /\ out.proposal.delta = Negated(Unwrap(out.opened).delta)

\* The last observe met an eval window older than max_window_duration_us.
ObservedTimedOut ==
    /\ last.op = "observe"
    /\ out.pre.state \in {"WaitingPlus", "WaitingMinus"}
    /\ SaturatingSub(out.at, out.pre.started_us) > MaxWindowDurationUs
\* The perturbation was aborted: Ready, nothing of the window kept, k as it was
Aborted ==
    /\ out.proposal = NoChange("EvalTimeout")
    /\ sp.state = "Ready"
    /\ sp = AbortPerturbation(out.pre)
    /\ sp.k = out.pre.k

\* C19 as stated: every observe that meets a timed-out window returns
\* NoChange{EvalTimeout} and aborts the perturbation.
C19_TimeoutAlwaysAborts == ObservedTimedOut => Aborted

\* C19: an observe in WaitingPlus or WaitingMinus whose window has lasted
\* longer than max_window_duration_us returns NoChange{EvalTimeout}, aborts
\* the perturbation and leaves the state Ready and k as it was, unless its
\* Digest event met a full audit queue: then it returns NoChange{SafeMode}
\* and the window stays open.
C19_TimeoutAborts ==
    /\ (ObservedTimedOut /\ out.enqueued # "Full") => Aborted
    /\ (ObservedTimedOut /\ out.enqueued = "Full") =>
           /\ out.proposal = NoChange("SafeMode")
           /\ sp = out.pre

\* A minus window timed out after its plus window had completed.
C19_Witness ==
    /\ ObservedTimedOut
    /\ out.enqueued # "Full"
    /\ out.pre.state = "WaitingMinus"
    /\ out.pre.samples >= 1
    /\ Aborted

(***************************************************************************)
(* ControlSafety::record_delta (control_safety.rs)                         *)
(***************************************************************************)
\* Guardrails.direction_flip_limit
DirectionFlipLimit == 1
\* Guardrails.max_cumulative_delta_per_minute
MaxCumulativeDeltaPerMinute == 3
\* minute_us = 60_000_000, in ticks of 30 s
MinuteUs == 2
\* record_delta is followed while no flip count has reached MaxFlips.
MaxFlips == 3

\* The deltas record_delta is given, one value per slot: the first slot
\* moves both ways, the second moves up or not at all
RecordedDeltas == {delta \in [ParamIds -> {-1, 0, 1}] : delta[2] >= 0}

\* direction: 1, -1 or 0
Direction(d) == IF d > 0 THEN 1 ELSE IF d < 0 THEN -1 ELSE 0
Abs(d) == IF d < 0 THEN -d ELSE d

\* A window that is never reset.
WindowKept(history, now_us) == history

\* "Reset window if expired", of the direction history and of the budget
DirectionWindow(history, now_us) ==
    IF SaturatingSub(now_us, history.window_start_us) > MinuteUs
      THEN [history EXCEPT !.flip_count = 0, !.window_start_us = now_us]
      ELSE history
BudgetWindow(budget, now_us) ==
    IF SaturatingSub(now_us, budget.window_start_us) > MinuteUs
      THEN [budget EXCEPT !.cumulative = 0, !.window_start_us = now_us]
      ELSE budget

\* "Check for direction flip": a non-zero direction that differs from the
\* remembered one
IsFlip(history, direction) ==
    /\ direction # 0
    /\ history.last_direction # None
    /\ Unwrap(history.last_direction) # 0
    /\ Unwrap(history.last_direction) # direction

\* history.last_direction = Some(direction), for a non-zero direction only
RememberEvery(history, direction) == [history EXCEPT !.last_direction = Some(direction)]
Remember(history, direction) ==
    IF direction # 0 THEN [history EXCEPT !.last_direction = Some(direction)] ELSE history

\* The direction tracking of one slot
TrackDirection(history, d, now_us) ==
    LET windowed == DirectionWindow(history, now_us)
        counted == IF IsFlip(windowed, Direction(d))
                     THEN [windowed EXCEPT !.flip_count = windowed.flip_count + 1]
                     ELSE windowed
    IN Remember(counted, Direction(d))

\* A limit that is passed only by the first flip above it.
FirstOverLimit(flip_count) == flip_count = DirectionFlipLimit + 1

\* "Check thrashing limit": the slot's flip was counted and the count is
\* above the limit
OverLimit(flip_count) == flip_count > DirectionFlipLimit
Thrashing(history, d, now_us) ==
    /\ IsFlip(DirectionWindow(history, now_us), Direction(d))
    /\ OverLimit(TrackDirection(history, d, now_us).flip_count)

\* A budget that adds the signed delta.
TrackBudgetSigned(budget, d, now_us) ==
    [BudgetWindow(budget, now_us) EXCEPT !.cumulative = @ + d]

\* The budget tracking of one slot
TrackBudget(budget, d, now_us) ==
    [BudgetWindow(budget, now_us) EXCEPT !.cumulative = @ + Abs(d)]

\* The sign of the last non-zero delta each slot was given, 0 before any
SeenAfter(signs, delta) ==
    [i \in ParamIds |-> IF delta[i] # 0 THEN Direction(delta[i]) ELSE signs[i]]

\* ControlSafety::record_delta
RecordDelta(delta) ==
    /\ \A i \in ParamIds :
           /\ DirectionWindow(direction_tracker[i], now).flip_count < MaxFlips
           /\ BudgetWindow(delta_budget[i], now).cumulative <= MaxCumulativeDeltaPerMinute
    /\ direction_tracker' =
           [i \in ParamIds |-> TrackDirection(direction_tracker[i], delta[i], now)]
    /\ delta_budget' = [i \in ParamIds |-> TrackBudget(delta_budget[i], delta[i], now)]
    /\ LET enter_thrashing_mode ==
               \E i \in ParamIds : Thrashing(direction_tracker[i], delta[i], now)
           enter_budget_mode ==
               \E i \in ParamIds :
                   TrackBudget(delta_budget[i], delta[i], now).cumulative
                       > MaxCumulativeDeltaPerMinute
       IN safe_mode' =
              IF enter_thrashing_mode
                THEN EnterSafeModeLatch("Thrashing", now, CooldownAfterFlipUs)
                ELSE IF enter_budget_mode
                  THEN EnterSafeModeLatch("BudgetExhausted", now, CooldownAfterFlipUs)
                  ELSE safe_mode
    /\ recorded' = [op |-> "record_delta", delta |-> delta, at |-> now,
                    pre |-> direction_tracker, preBudget |-> delta_budget,
                    preMode |-> safe_mode,
                    prev |-> recorded.seen, seen |-> SeenAfter(recorded.seen, delta)]
    /\ last' = Called("record_delta")
    /\ UNCHANGED <<cfgVars, thrVars, queue, audVars, now, exeVars, nPub, okAt,
                   arcVars, twinVars, obsVars, moreVars>>

\* ControlSafety::check_proposal: the timer's poll
PollSafeMode ==
    /\ safe_mode # None
    /\ safe_mode' = CheckProposal(safe_mode, now)
    /\ last' = Called("check_proposal")
    /\ UNCHANGED <<cfgVars, thrVars, queue, audVars, now, exeVars, nPub, okAt, extVars>>

NextCs ==
    \/ \E delta \in RecordedDeltas : RecordDelta(delta)
    \/ PollSafeMode
    \/ Tick

SpecCs == InitEngine /\ [][NextCs]_vars

(***************************************************************************)
(* Properties of record_delta                                              *)
(***************************************************************************)
\* Slot i was given a non-zero delta of the opposite sign to its previous
\* non-zero delta.
Flipped(i) ==
    /\ recorded.delta[i] # 0
    /\ recorded.prev[i] # 0
    /\ Direction(recorded.delta[i]) = -recorded.prev[i]
\* The flips of slot i in the window the call fell into, before the call
FlipsBefore(i) == DirectionWindow(recorded.pre[i], recorded.at).flip_count
\* The flip counts follow the signs of the non-zero deltas.
FlipsCounted ==
    \A i \in ParamIds :
        /\ direction_tracker[i].flip_count =
               FlipsBefore(i) + (IF Flipped(i) THEN 1 ELSE 0)
        /\ direction_tracker[i].last_direction =
               IF recorded.seen[i] = 0 THEN None ELSE Some(recorded.seen[i])
ThrashingLatch == EnterSafeModeLatch("Thrashing", recorded.at, CooldownAfterFlipUs)
BudgetLatch == EnterSafeModeLatch("BudgetExhausted", recorded.at, CooldownAfterFlipUs)

\* C20 as stated: record_delta counts a flip exactly when a non-zero delta
\* has the opposite sign to the slot's previous non-zero delta, and it
\* latches SafeMode(Thrashing) with a timer of cooldown_after_flip_us exactly
\* when some slot's count first exceeds direction_flip_limit, at flip number
\* limit + 1.
C20_LatchedAtFirstExcess ==
    last.op = "record_delta" =>
        /\ FlipsCounted
        /\ (\E i \in ParamIds : Flipped(i) /\ FlipsBefore(i) = DirectionFlipLimit)
               => safe_mode = ThrashingLatch
        /\ ~(\E i \in ParamIds : Flipped(i) /\ FlipsBefore(i) = DirectionFlipLimit)
               => safe_mode \in {recorded.preMode, BudgetLatch}

\* C20: record_delta counts a flip exactly when a non-zero delta has the
\* opposite sign to the slot's previous non-zero delta, zero deltas neither
\* counting nor changing the remembered direction; it latches
\* SafeMode(Thrashing) with a timer of cooldown_after_flip_us at every flip
\* that leaves a slot's count in the current window above
\* direction_flip_limit, at flip limit + 1 and at each later flip, and at no
\* flip up to the limit.
C20_FlipsAndThrashing ==
    last.op = "record_delta" =>
        /\ FlipsCounted
        /\ (\E i \in ParamIds : Flipped(i) /\ FlipsBefore(i) >= DirectionFlipLimit)
               => safe_mode = ThrashingLatch
        /\ ~(\E i \in ParamIds : Flipped(i) /\ FlipsBefore(i) >= DirectionFlipLimit)
               => safe_mode \in {recorded.preMode, BudgetLatch}

\* Flip limit + 1 of one slot latches, while the other slot, given a zero
\* delta, keeps its direction and its count.
C20_Witness ==
    /\ last.op = "record_delta"
    /\ \E i \in ParamIds :
           /\ Flipped(i)
           /\ FlipsBefore(i) = DirectionFlipLimit
           /\ direction_tracker[i].flip_count = DirectionFlipLimit + 1
           /\ recorded.pre[i].last_direction = Some(recorded.prev[i])
    /\ \E i \in ParamIds :
           /\ recorded.delta[i] = 0
           /\ recorded.seen[i] # 0
           /\ direction_tracker[i].flip_count = 0
    /\ recorded.preMode = None
    /\ safe_mode = ThrashingLatch

(***************************************************************************)
(* ControlSafety::record_objective and the latch (control_safety.rs)       *)
(***************************************************************************)
\* Guardrails.regression_count_limit
RegressionCountLimit == 2
\* The 0.01 of "value > last + 0.01", the unit of the objective being 0.01
RegressionEpsilon == 1

\* The objective values record_objective is given: steps of less than, of
\* exactly and of more than epsilon, and enough room for limit + 1 regressions
RegObjectives == {0, 1} \cup {2 * j : j \in 1..(RegressionCountLimit + 1)}

\* "Worsening = higher value": value exceeds its predecessor by more than epsilon
WorseOrEqual(value, previous) == value >= previous + RegressionEpsilon
Worse(value, previous) == value > previous + RegressionEpsilon

\* The count after a record: one more after a regression, zero after any
\* other record, untouched by the first record
CountAfter(count, previous, value) ==
    IF previous = None THEN count
    ELSE IF Worse(value, Unwrap(previous)) THEN count + 1
    ELSE 0

\* The values of the last RegressionCountLimit + 1 records, oldest first
ValuesAfter(values, value) ==
    LET all == Append(values, value)
    IN IF Len(all) > RegressionCountLimit + 1 THEN Tail(all) ELSE all

\* ControlSafety::record_objective
CsRecordObjective(value) ==
    /\ consecutive_regressions' = CountAfter(consecutive_regressions, last_objective, value)
    /\ last_objective' = Some(value)
    /\ safe_mode' =
           IF /\ last_objective # None
              /\ Worse(value, Unwrap(last_objective))
              /\ CountAfter(consecutive_regressions, last_objective, value)
                     >= RegressionCountLimit
             THEN EnterSafeModeLatch("ObjectiveRegression", now, CooldownAfterFlipUs)
             ELSE safe_mode
    /\ noted' = [op |-> "record_objective", value |-> value, at |-> now,
                 values |-> ValuesAfter(noted.values, value)]
    /\ last' = Called("record_objective")
    /\ UNCHANGED <<cfgVars, thrVars, queue, audVars, now, exeVars, nPub, okAt,
                   arcVars, twinVars, obsVars, csVars, aqVars, tbVars, rateVars>>

\* The deltas and objectives the latch is exercised with
SafeDeltas == {<<1, 0>>}
SafeObjectives == {0, 2, 4}

NextSafe ==
    \/ \E delta \in SafeDeltas : RecordDelta(delta)
    \/ \E value \in SafeObjectives : CsRecordObjective(value)
    \/ PollSafeMode
    \/ ResetSafeMode
    \/ Tick

SpecSafe == InitEngine /\ [][NextSafe]_vars

(***************************************************************************)
(* Properties of the latch                                                 *)
(***************************************************************************)
\* The timer of the latch has run out at now_us.
TimerOut(mode, now_us) ==
    SaturatingSub(now_us, Unwrap(mode).entered_at_us) >= Unwrap(mode).remaining_us

\* C21: a latched SafeMode is cleared only by reset_safe_mode or by a timer
\* poll at a time with now - entered_at_us >= cooldown; such a poll clears it,
\* an earlier poll keeps the latch as it is, and record_delta and
\* record_objective never clear it.
C21_LatchHeldUntilResetOrTimer ==
    /\ (last.preMode # None /\ safe_mode = None) =>
           \/ last.op = "reset_safe_mode"
           \/ (last.op = "check_proposal" /\ TimerOut(last.preMode, now))
    /\ (last.op = "check_proposal" /\ last.preMode # None) =>
           IF TimerOut(last.preMode, now) THEN safe_mode = None
           ELSE safe_mode = last.preMode
    /\ (last.op \in {"record_delta", "record_objective"} /\ last.preMode # None) =>
           safe_mode # None
    /\ (last.op = "tick" /\ last.preMode # None) => safe_mode = last.preMode

\* A timer poll has cleared a latch that record_objective entered after time 0.
C21_Witness ==
    /\ last.op = "check_proposal"
    /\ last.preMode # None
    /\ Unwrap(last.preMode).reason = "ObjectiveRegression"
    /\ Unwrap(last.preMode).entered_at_us > 0
    /\ safe_mode = None

(***************************************************************************)
(* Properties of the cumulative budget                                     *)
(***************************************************************************)
\* The total of slot i before the call: what the 60-second window the call
\* fell into had accumulated, nothing when the call opened a new window
TotalBefore(i) ==
    IF recorded.at - recorded.preBudget[i].window_start_us > MinuteUs
      THEN 0
      ELSE recorded.preBudget[i].cumulative
\* |delta_i| was added to the total of every slot's current window.
TotalsAdded ==
    \A i \in ParamIds :
        /\ delta_budget[i].cumulative = TotalBefore(i) + Abs(recorded.delta[i])
        /\ delta_budget[i].window_start_us \in
               {recorded.preBudget[i].window_start_us, recorded.at}
        /\ delta_budget[i].window_start_us = recorded.at
               <=> \/ recorded.at - recorded.preBudget[i].window_start_us > MinuteUs
                   \/ recorded.preBudget[i].window_start_us = recorded.at
\* Some slot's total is above the limit after the call.
BudgetExceeded ==
    \E i \in ParamIds : delta_budget[i].cumulative > MaxCumulativeDeltaPerMinute
\* The call counted a flip above the flip limit.
FlipExceeded ==
    \E i \in ParamIds : Flipped(i) /\ FlipsBefore(i) >= DirectionFlipLimit

\* C22 as stated: record_delta adds |delta_i| to slot i's total of the
\* current window, and it latches SafeMode(BudgetExhausted) when some total
\* exceeds max_cumulative_delta_per_minute, a total equal to the limit
\* latching nothing.
C22_ExceedingLatchesBudgetExhausted ==
    last.op = "record_delta" =>
        /\ TotalsAdded
        /\ BudgetExceeded => safe_mode = BudgetLatch
        /\ ~BudgetExceeded => safe_mode # BudgetLatch \/ safe_mode = recorded.preMode

\* C22: record_delta adds |delta_i| to slot i's total of the current
\* window; when some total exceeds max_cumulative_delta_per_minute it
\* latches SafeMode, with reason BudgetExhausted unless the same call counted
\* a flip above direction_flip_limit, which latches Thrashing instead; with
\* every total at or below the limit the call latches no BudgetExhausted.
C22_BudgetAndLatch ==
    last.op = "record_delta" =>
        /\ TotalsAdded
        /\ (BudgetExceeded /\ ~FlipExceeded) => safe_mode = BudgetLatch
        /\ (BudgetExceeded /\ FlipExceeded) => safe_mode = ThrashingLatch
        /\ (~BudgetExceeded /\ ~FlipExceeded) => safe_mode = recorded.preMode
        /\ ~BudgetExceeded => safe_mode \in {recorded.preMode, ThrashingLatch}

\* A call took a total from the limit to above it and latched
\* BudgetExhausted, while the other slot's total stayed exactly at the limit.
C22_Witness ==
    /\ last.op = "record_delta"
    /\ recorded.preMode = None
    /\ safe_mode = BudgetLatch
    /\ \E i \in ParamIds :
           /\ TotalBefore(i) = MaxCumulativeDeltaPerMinute
           /\ delta_budget[i].cumulative = MaxCumulativeDeltaPerMinute + 1
           /\ recorded.delta[i] < 0
    /\ \E i \in ParamIds :
           /\ delta_budget[i].cumulative = MaxCumulativeDeltaPerMinute
           /\ recorded.delta[i] = 0

(***************************************************************************)
(* Properties of record_objective                                          *)
(***************************************************************************)
NextReg ==
    \/ \E value \in RegObjectives : CsRecordObjective(value)
    \/ PollSafeMode
    \/ ResetSafeMode
    \/ Tick

SpecReg == InitEngine /\ [][NextReg]_vars

\* Record j of the remembered values exceeded its predecessor by more than
\* epsilon.
Regressed(values, j) == values[j] > values[j - 1] + RegressionEpsilon
\* The number of records at the end of the remembered values that each
\* regressed
RECURSIVE TrailingRegressions(_)
TrailingRegressions(values) ==
    IF Len(values) < 2 \/ ~Regressed(values, Len(values)) THEN 0
    ELSE 1 + TrailingRegressions(SubSeq(values, 1, Len(values) - 1))
\* The last regression_count_limit records each regressed.
RegressedLimitTimes == TrailingRegressions(noted.values) >= RegressionCountLimit
RegressionLatch ==
    EnterSafeModeLatch("ObjectiveRegression", noted.at, CooldownAfterFlipUs)

\* C23: record_objective latches SafeMode(ObjectiveRegression) exactly when
\* the objective has exceeded its predecessor by more than epsilon in each
\* of the last regression_count_limit records; a record that does not
\* exceed its predecessor by more than epsilon resets the count to zero, and
\* the first record ever never counts.
C23_RegressionLatch ==
    last.op = "record_objective" =>
        /\ RegressedLimitTimes => safe_mode = RegressionLatch
        /\ ~RegressedLimitTimes => safe_mode = last.preMode
        /\ (Len(noted.values) >= 2 /\ ~Regressed(noted.values, Len(noted.values)))
               => consecutive_regressions = 0
        /\ Len(noted.values) = 1 =>
               consecutive_regressions = 0 /\ safe_mode = last.preMode
        /\ TrailingRegressions(noted.values) < RegressionCountLimit =>
               consecutive_regressions = TrailingRegressions(noted.values)
        /\ last_objective = Some(noted.values[Len(noted.values)])

\* The latch was entered after time 0 by the last of exactly
\* regression_count_limit regressions, the record before them not having
\* counted.
C23_Witness ==
    /\ last.op = "record_objective"
    /\ last.preMode = None
    /\ safe_mode = RegressionLatch
    /\ noted.at > 0
    /\ consecutive_regressions = RegressionCountLimit
    /\ Len(noted.values) = RegressionCountLimit + 1
    /\ noted.values[1] = 1

(***************************************************************************)
(* Properties of observe's audit events                                    *)
(***************************************************************************)
\* The newest event of the audit queue is of the given type.
NewestEventIs(event_type) ==
    Len(queue) > 0 /\ queue[Len(queue)].event_type = event_type

\* C24 as stated: an observe whose Digest event is rejected Full triggers
\* SafeMode, control safety being latched afterwards, and returns
\* NoChange{SafeMode}; any other observe pushes the digest to the telemetry
\* buffer, runs the SPSA step and enqueues a Proposal event.
C24_FullLatchesElseProposalLogged ==
    last.op = "observe" =>
        IF out.enqueued = "Full"
          THEN /\ out.proposal = NoChange("SafeMode")
               /\ IsSafeMode(safe_mode)
          ELSE /\ Len(telemetry) > 0
               /\ telemetry[Len(telemetry)] = out.value
               /\ sp = EngineMatch(out.pre, out.value, out.at).spsa
               /\ NewestEventIs("Proposal")

(***************************************************************************)
(* SpecQueue: one AuditQueue of any capacity, its calls one after another  *)
(* (audit.rs)                                                              *)
(***************************************************************************)
\* The largest capacity an AuditQueue is built with
MaxCapacity == 5
\* The events enqueued
QueueEvents == {"e1", "e2"}

\* AuditQueue::new
AuditQueueNew(capacity) ==
    [queue |-> <<>>, capacity |-> capacity, high_water_mark |-> HighWaterMark(capacity)]

\* ArrayQueue::push on a queue of the given capacity: Ok(()) or Err(event)
PushOk(a) == Len(a.queue) < a.capacity
\* enqueue line 99: the result of an accepted push, from queue.len()
Accepted(a) ==
    IF Len(a.queue) >= a.high_water_mark THEN "HighWaterMark" ELSE "Ok"

\* ArrayQueue::new panics on capacity 0.
InitQueue ==
    /\ ArcIdle /\ TwinIdle /\ ObsIdle /\ CsIdle /\ RegIdle /\ TbIdle /\ RateIdle
    /\ CoreIdle
    /\ aq \in {AuditQueueNew(capacity) : capacity \in 1..MaxCapacity}
    /\ aqlog = [op |-> "new"]

\* AuditQueue::enqueue
AqEnqueue(event) ==
    /\ IF PushOk(aq)
         THEN LET pushed == [aq EXCEPT !.queue = Append(@, event)]
              IN /\ aq' = pushed
                 /\ aqlog' = [op |-> "enqueue", event |-> event, pre |-> aq.queue,
                              result |-> Accepted(pushed)]
         ELSE /\ aq' = aq
              /\ aqlog' = [op |-> "enqueue", event |-> event, pre |-> aq.queue,
                           result |-> "Full"]
    /\ UNCHANGED <<cfgVars, thrVars, queue, audVars, engVars,
                   arcVars, twinVars, obsVars, csVars, regVars, tbVars, rateVars>>

\* AuditQueue::drain
AqDrain ==
    /\ aq' = [aq EXCEPT !.queue = <<>>]
    /\ aqlog' = [op |-> "drain", pre |-> aq.queue, result |-> aq.queue]
    /\ UNCHANGED <<cfgVars, thrVars, queue, audVars, engVars,
                   arcVars, twinVars, obsVars, csVars, regVars, tbVars, rateVars>>

NextQueue ==
    \/ \E event \in QueueEvents : AqEnqueue(event)
    \/ AqDrain

SpecQueue == InitQueue /\ [][NextQueue]_vars

\* C25 as stated: an enqueue is rejected Full exactly when the queue already
\* holds capacity events; an accepted one stores the event and returns Ok
\* while the fill is below 80% of the capacity, HighWaterMark once it is at
\* or above 80%, for every capacity from 1.
C25_OkBelowEightyPercent ==
    aqlog.op = "enqueue" =>
        /\ aqlog.result = "Full" <=> Len(aqlog.pre) = aq.capacity
        /\ aqlog.result = "Full" => aq.queue = aqlog.pre
        /\ aqlog.result # "Full" => aq.queue = Append(aqlog.pre, aqlog.event)
        /\ aqlog.result = "Ok" => Len(aqlog.pre) * 100 < 80 * aq.capacity
        /\ aqlog.result = "HighWaterMark" => Len(aq.queue) * 100 >= 80 * aq.capacity

(***************************************************************************)
(* SpecDrain: producers and drainers on one AuditQueue, the order of the   *)
(* accepted pushes and of the pops remembered                              *)
(***************************************************************************)
\* AuditQueue::enqueue, its push the step that takes effect
OrderedEnqueue(p) ==
    /\ ppc[p].n < MaxEvents
    /\ LET e == <<p, ppc[p].n + 1>> IN
        /\ queue' = QueuePush(queue, e)
        /\ accepted' = IF PushAccepts(queue) THEN Append(accepted, e) ELSE accepted
        /\ enq' = [enq EXCEPT ![e] = EnqueueResult(queue)]
        /\ ppc' = [ppc EXCEPT ![p].n = @ + 1]
    /\ UNCHANGED <<cfgVars, thrVars, engVars, dloc, returned, popped, extVars>>

\* drain line 112-114: one self.queue.pop(); None ends the loop and the call
OrderedPop(d) ==
    /\ dloc[d].at = "pop"
    /\ IF queue # <<>>
         THEN /\ queue' = Tail(queue)
              /\ dloc' = [dloc EXCEPT ![d].events = Append(@, Head(queue))]
              /\ popped' = Append(popped, Head(queue))
              /\ returned' = returned
         ELSE /\ queue' = queue
              /\ popped' = popped
              /\ returned' = [e \in Events |-> returned[e] + Occurrences(dloc[d].events, e)]
              /\ dloc' = [dloc EXCEPT ![d] = [at |-> "idle", events |-> <<>>]]
    /\ UNCHANGED <<cfgVars, thrVars, engVars, ppc, enq, accepted, extVars>>

NextDrain ==
    \/ \E p \in Producers : OrderedEnqueue(p)
    \/ \E d \in Drainers : DrainStart(d)
    \/ \E d \in Drainers : OrderedPop(d)

SpecDrain == InitAudit /\ [][NextDrain]_vars

\* The place of event e in sequence s, which holds it once
PlaceIn(s, e) == CHOOSE i \in 1..Len(s) : s[i] = e
\* Sequence s lists events of t, each once, in the order t has them.
InOrderOf(s, t) ==
    /\ \A i \in 1..Len(s) : \E j \in 1..Len(t) : t[j] = s[i]
    /\ \A i, j \in 1..Len(s) : i < j => PlaceIn(t, s[i]) < PlaceIn(t, s[j])
\* The events of producer p in sequence s
FromProducer(s, p) == SelectSeq(s, LAMBDA e : e[1] = p)
\* Producer p's events are in s in the order p enqueued them.
InEnqueueOrder(s, p) ==
    \A i, j \in 1..Len(FromProducer(s, p)) :
        i < j => FromProducer(s, p)[i][2] < FromProducer(s, p)[j][2]
\* Drain d returns in this step.
DrainReturns(d) == dloc[d].at = "pop" /\ dloc'[d].at = "idle"

\* C26: drain returns once it has found the queue empty, every event
\* accepted until then having been popped, by it or by a drain before it,
\* and it returns its events in the order their enqueues were accepted; the
\* events of each producer leave the queue, within a drain and across
\* successive drains, in that producer's enqueue order.
C26_DrainFifo ==
    /\ [](/\ accepted = popped \o queue
          /\ \A d \in Drainers : InOrderOf(dloc[d].events, accepted)
          /\ \A p \in Producers : InEnqueueOrder(popped \o queue, p))
    /\ [][\A d \in Drainers :
              DrainReturns(d) =>
                  /\ queue = <<>> /\ queue' = <<>>
                  /\ popped = accepted
                  /\ \A e \in Events :
                         returned'[e] = returned[e] + Occurrences(dloc[d].events, e)
                  /\ \A i \in 1..Len(accepted) :
                         \/ returned[accepted[i]] > 0
                         \/ \E c \in Drainers : \E j \in 1..Len(dloc[c].events) :
                                dloc[c].events[j] = accepted[i]]_vars

\* A drain that has popped events of both producers, the second producer's
\* first, finds the queue empty after an earlier drain has returned.
C26_Witness ==
    /\ \E d \in Drainers :
           /\ dloc[d].at = "pop"
           /\ Len(dloc[d].events) >= 2
           /\ dloc[d].events[1][1] = "p2"
           /\ \E i \in 1..Len(dloc[d].events) : dloc[d].events[i][1] = "p1"
    /\ queue = <<>>
    /\ \E e \in Events : returned[e] > 0

(***************************************************************************)
(* SpecTel: one TelemetryRingBuffer of any capacity (telemetry.rs)         *)
(***************************************************************************)
\* The largest capacity a TelemetryRingBuffer is built with
MaxTelCapacity == 2
\* The pushes the model follows
MaxPushes == 4
\* digest.objective_value of the digests pushed
TelObjectives == {0, 1}

\* The sequence s from its newest entry to its oldest
RECURSIVE Reversed(_)
Reversed(s) == IF s = <<>> THEN <<>> ELSE Append(Reversed(Tail(s)), Head(s))
\* The first n entries of s, all of s when it has fewer: Iterator::take
Take(s, n) == SubSeq(s, 1, IF n < Len(s) THEN n ELSE Len(s))
\* The last n entries of s, all of s when it has fewer
Newest(s, n) == SubSeq(s, (IF n < Len(s) THEN Len(s) - n ELSE 0) + 1, Len(s))

\* TelemetryRingBuffer::new; the drop counter starts at 0
TelemetryRingBufferNew(capacity) == [buffer |-> <<>>, capacity |-> capacity, dropped |-> 0]

\* push overwrites an old digest: the buffer is full and holds one
Overwrites(t) == Len(t.buffer) >= t.capacity /\ t.buffer # <<>>
\* The drop counter after a push
DropCountAfterPush(t) == IF Overwrites(t) THEN t.dropped + 1 ELSE t.dropped
\* A clear that also resets the counter.
DropCountReset(t) == 0
\* The drop counter after a clear
DropCountAfterClear(t) == t.dropped

\* TelemetryRingBuffer::push: pop_front when len >= capacity, then push_back
BufferAfterPush(t, digest) ==
    Append(IF Len(t.buffer) >= t.capacity
             THEN (IF t.buffer = <<>> THEN <<>> ELSE Tail(t.buffer))
             ELSE t.buffer,
           digest)
\* TelemetryRingBuffer::latest: buffer.back()
Latest(t) == IF t.buffer = <<>> THEN None ELSE Some(t.buffer[Len(t.buffer)])
\* TelemetryRingBuffer::recent: buffer.iter().rev().take(n), collected
Recent(t, n) == Take(Reversed(t.buffer), n)

NewTelLog == [op |-> "new", result |-> <<>>, pushed |-> <<>>, pushes |-> 0, cleared |-> 0]

InitTel ==
    /\ ArcIdle /\ TwinIdle /\ ObsIdle /\ CsIdle /\ RegIdle /\ AqIdle /\ RateIdle
    /\ CoreIdle
    /\ tb \in {TelemetryRingBufferNew(capacity) : capacity \in 0..MaxTelCapacity}
    /\ tblog = NewTelLog

\* TelemetryRingBuffer::push of the digest with the next timestamp
TbPush(objective_value) ==
    /\ tblog.pushes < MaxPushes
    /\ LET digest == [timestamp_us |-> tblog.pushes + 1, objective_value |-> objective_value]
       IN /\ tb' = [tb EXCEPT !.buffer = BufferAfterPush(tb, digest),
                              !.dropped = DropCountAfterPush(tb)]
          /\ tblog' = [tblog EXCEPT !.op = "push", !.result = <<>>,
                                    !.pushed = Append(@, digest), !.pushes = @ + 1]
    /\ UNCHANGED <<cfgVars, thrVars, queue, audVars, engVars,
                   arcVars, twinVars, obsVars, csVars, regVars, aqVars, rateVars>>

\* TelemetryRingBuffer::latest
TbLatest ==
    /\ tblog' = [tblog EXCEPT !.op = "latest", !.result = Latest(tb)]
    /\ UNCHANGED <<cfgVars, thrVars, queue, audVars, engVars, tb,
                   arcVars, twinVars, obsVars, csVars, regVars, aqVars, rateVars>>

\* TelemetryRingBuffer::recent(n)
TbRecent(n) ==
    /\ tblog' = [tblog EXCEPT !.op = "recent", !.result = <<n, Recent(tb, n)>>]
    /\ UNCHANGED <<cfgVars, thrVars, queue, audVars, engVars, tb,
                   arcVars, twinVars, obsVars, csVars, regVars, aqVars, rateVars>>

\* TelemetryRingBuffer::clear
TbClear ==
    /\ tb.buffer # <<>>
    /\ tb' = [tb EXCEPT !.buffer = <<>>, !.dropped = DropCountAfterClear(tb)]
    /\ tblog' = [tblog EXCEPT !.op = "clear", !.result = <<>>, !.pushed = <<>>,
                              !.cleared = @ + Len(tb.buffer)]
    /\ UNCHANGED <<cfgVars, thrVars, queue, audVars, engVars,
                   arcVars, twinVars, obsVars, csVars, regVars, aqVars, rateVars>>

NextTel ==
    \/ \E objective_value \in TelObjectives : TbPush(objective_value)
    \/ TbLatest
    \/ \E n \in 0..(MaxTelCapacity + 1) : TbRecent(n)
    \/ TbClear

SpecTel == InitTel /\ [][NextTel]_vars

\* C27 as stated: with n digests pushed to a buffer of capacity K, 0
\* included, len() <= K and the buffer holds the min(n, K) newest of them in
\* push order; latest() is the last digest pushed, and recent(m) yields the
\* min(m, len) newest entries, newest first.
C27_HoldsNewestUpToCapacity ==
    /\ Len(tb.buffer) <= tb.capacity
    /\ tb.buffer = Newest(tblog.pushed, tb.capacity)
    /\ tblog.op = "latest" =>
           tblog.result = IF tblog.pushed = <<>> THEN None
                          ELSE Some(tblog.pushed[Len(tblog.pushed)])
    /\ tblog.op = "recent" =>
           tblog.result[2] = Reversed(Newest(tb.buffer, tblog.result[1]))

\* The digests evicted so far: every digest pushed is still held, was
\* removed by a clear, or was evicted by a push
Evicted == tblog.pushes - tblog.cleared - Len(tb.buffer)

C29_AuditQueueFullHeldUntilCleared ==
    (/\ last.preMode # None
     /\ Unwrap(last.preMode).reason = "AuditQueueFull"
     /\ last.op \notin {"reset_safe_mode", "enter_safe_mode"})
        => /\ safe_mode = last.preMode
           /\ last.op = "apply" => generation = last.preGen /\ inner = last.pre

(***************************************************************************)
(* SpecRate: the time gate of a SafetyExecutor under any Guardrails        *)
(* (safety_executor.rs)                                                    *)
(***************************************************************************)
\* The updates the model follows within one window
MaxUpdates == 3
\* Guardrails.min_interval_us and max_updates_per_second of the executors built
MinIntervals == {0, MinIntervalUs}
MaxRates == {1, 2}

\* check_rate_limit line 127: Err when the update comes before
\* last_update_us + min_interval_us, Ok otherwise
CheckRateLimit(g, last_update, current_time_us) ==
    IF current_time_us < last_update + g.min_interval_us
      THEN "RateLimitExceeded"
      ELSE "Ok"

\* check_rate_limit line 128-134: updates_in_window over the seconds since
\* window_start_us exceeds max, the rate being infinite at no elapsed time
RateExceeds(updates, window_start, current_time_us, max) ==
    LET elapsed_us == SaturatingSub(current_time_us, window_start)
    IN IF elapsed_us > 0 THEN updates * RateWindowUs > max * elapsed_us
       ELSE TRUE

InitRate ==
    /\ ArcIdle /\ TwinIdle /\ ObsIdle /\ CsIdle /\ RegIdle /\ AqIdle /\ TbIdle
    /\ CoreIdle
    /\ guardrails \in [min_interval_us : MinIntervals, max_updates_per_second : MaxRates]
    /\ ratelog = [op |-> "new"]

\* An update at the clock's time: check_rate_limit, and record_update when
\* it returned Ok
RateApply ==
    /\ updates_in_window < MaxUpdates
    /\ LET result == CheckRateLimit(guardrails, last_update_us, now)
           after == IF result = "Ok" THEN RecordUpdate(now)
                    ELSE [window_start_us |-> window_start_us,
                          updates_in_window |-> updates_in_window,
                          last_update_us |-> last_update_us]
       IN /\ last_update_us' = after.last_update_us
          /\ updates_in_window' = after.updates_in_window
          /\ window_start_us' = after.window_start_us
          /\ ratelog' = [op |-> "apply", at |-> now, result |-> result,
                         pre |-> [window_start_us |-> window_start_us,
                                  updates_in_window |-> updates_in_window,
                                  last_update_us |-> last_update_us]]
    /\ UNCHANGED <<cfgVars, thrVars, queue, audVars, now, safe_mode, nPub, okAt, last,
                   arcVars, twinVars, obsVars, csVars, regVars, aqVars, tbVars, guardrails>>

\* The clock advances.
RateTick ==
    /\ now < MaxTime
    /\ now' = now + 1
    /\ UNCHANGED <<cfgVars, thrVars, queue, audVars, exeVars, safe_mode, nPub, okAt, last,
                   arcVars, twinVars, obsVars, csVars, regVars, aqVars, tbVars, rateVars>>

NextRate ==
    \/ RateApply
    \/ RateTick

SpecRate == InitRate /\ [][NextRate]_vars

\* C30 as stated: an update is rejected with RateLimitExceeded whenever the
\* rate measured over the window, with at least one update in it, exceeds
\* max_updates_per_second, also when min_interval_us has elapsed since the
\* last update.
C30_RateAboveMaxRejected ==
    (/\ ratelog.op = "apply"
     /\ ratelog.pre.updates_in_window > 0
     /\ RateExceeds(ratelog.pre.updates_in_window, ratelog.pre.window_start_us,
                    ratelog.at, guardrails.max_updates_per_second))
        => ratelog.result = "RateLimitExceeded"

(***************************************************************************)
(* C31: the order of the gates of apply                                    *)
(***************************************************************************)
\* Some entry of the delta is larger than max_delta_per_step.
TooLarge(delta) == \E p \in DOMAIN delta : Abs(delta[p]) > MaxDeltaPerStep

\* Some entry of the delta names a parameter outside the allowlist.
Unregistered(delta) == \E p \in DOMAIN delta : p \notin DOMAIN Bounds

\* The apply that has just returned got past the audit queue and the time gate
\* with an Update proposal, so validate_delta decided its result.
ReachedValidation ==
    /\ last.op = "apply"
    /\ last.kind = "Update"
    /\ last.propEnq # "Full"
    /\ ~(now < last.preLastUpdate + MinIntervalUs)

\* C31: apply returns the violation of the first gate that fails over the
\* whole delta, the gates being taken in the order delta gate, bounds gate,
\* unknown-parameter gate: any too-large entry gives DeltaTooLarge, otherwise
\* any out-of-bounds entry gives OutOfBounds, otherwise any unregistered
\* entry gives UnknownParameter.
C31_GateOrderOverWholeDelta ==
    ReachedValidation =>
        IF TooLarge(last.delta) THEN last.result.tag = "DeltaTooLarge"
        ELSE IF Offending(last.pre.params, last.delta) # {}
             THEN last.result.tag = "OutOfBounds"
        ELSE IF Unregistered(last.delta) THEN last.result.tag = "UnknownParameter"
        ELSE TRUE

(***************************************************************************)
(* C32: the 60-second window of the flip counts and the budgets            *)
(***************************************************************************)
\* The call arrived more than a minute after the origin of slot i's window.
DirectionExpired(i) ==
    SaturatingSub(recorded.at, recorded.pre[i].window_start_us) > MinuteUs
BudgetExpired(i) ==
    SaturatingSub(recorded.at, recorded.preBudget[i].window_start_us) > MinuteUs

C33_LengthNeverChanges ==
    /\ \A s \in published : Len(s.params) = Len(InitialParams)
    /\ Len(inner.params) = Len(InitialParams)

(***************************************************************************)
(* C34: what apply records into control safety                             *)
(***************************************************************************)
\* ParamRegistry::new: ids in the order of the names
RegistryId == [x |-> 1, y |-> 2]

\* The apply that has just returned applied an Update and published it.
AppliedUpdate ==
    /\ last.op = "apply"
    /\ last.kind = "Update"
    /\ last.result.tag = "Ok"
    /\ generation # last.preGen

\* C34: only the deltas of successfully applied proposals are recorded into
\* control safety: before any snapshot was published the flip counters,
\* remembered directions and totals are those of a new ControlSafety, and a
\* successful apply has remembered the direction of every entry of its delta
\* and added its magnitude to the entry's total.
C34_SuccessfulApplyRecordsDelta ==
    /\ nPub = 0 =>
           /\ direction_tracker = [i \in ParamIds |-> NewDirectionHistory]
           /\ delta_budget = [i \in ParamIds |-> NewDeltaBudget]
    /\ AppliedUpdate =>
           \A p \in DOMAIN last.delta :
               /\ direction_tracker[RegistryId[p]].last_direction
                      = Some(Direction(last.delta[p]))
               /\ delta_budget[RegistryId[p]].cumulative >= Abs(last.delta[p])

(***************************************************************************)
(* C35: observe and apply on a full audit queue                            *)
(***************************************************************************)
\* The audit queue holds capacity events: the next push is rejected.
AuditQueueIsFull == Len(queue) >= AuditCap

\* A step that is an observe or an apply of the engine.
ObserveOrApplyStep == last' # last /\ last'.op \in {"observe", "apply"}

\* C35: while the audit queue is full, an observe pushes nothing to the
\* telemetry buffer and leaves the SPSA state and the iteration counter as
\* they were, and an apply leaves the configuration and the generation as
\* they were; neither adds an event to the queue.
C35_FullQueueHaltsAdaptation ==
    [][(AuditQueueIsFull /\ ObserveOrApplyStep) =>
           /\ UNCHANGED <<telemetry, sp, inner, generation, queue>>
           /\ last'.op = "observe" => out'.proposal = NoChange("SafeMode")
           /\ last'.op = "apply" => last'.result = Result("AuditQueueFull", <<>>)]_vars

\* An observe in an open window and then an apply both met the full queue:
\* the window, the buffer and the configuration are those they met.
C35_Witness ==
    /\ AuditQueueIsFull
    /\ last.op = "apply"
    /\ last.kind = "Update"
    /\ last.propEnq = "Full"
    /\ inner = last.pre
    /\ out.op = "observe"
    /\ out.enqueued = "Full"
    /\ out.pre.state = "WaitingPlus"
    /\ sp = out.pre
    /\ telemetry # <<>>

(***************************************************************************)
(* C36: the Rollback events of AdaptiveEngine::rollback                    *)
(***************************************************************************)
\* C36: a rollback that succeeds places exactly one Rollback event in the
\* audit queue, and a rollback that fails with NoBaseline places none.
C36_OneRollbackEventPerSuccess ==
    [][Rollback =>
           IF last'.result.tag = "Ok"
             THEN queue' = Append(queue, AuditEvent("Rollback", generation, ""))
             ELSE queue' = queue]_vars

(***************************************************************************)
(* C37: the generation counter and the live snapshot                       *)
(***************************************************************************)
\* No thread is inside swap or rollback.
NoSwapInProgress == \A w \in Writers : pc[w] \in {"idle", "set_baseline"}

\* C37: generation() is at every instant at least the generation of the live
\* snapshot, and the two are equal whenever no swap or rollback is in
\* progress.
C37_CounterEqualsLiveGeneration ==
    /\ generation >= inner.generation
    /\ NoSwapInProgress => generation = inner.generation

(***************************************************************************)
(* C38: what leaving SafeMode leaves behind                                *)
(***************************************************************************)
\* The deltas the latch is left and entered again with: one slot moving both
\* ways
ExitDeltas == {<<1, 0>>, <<-1, 0>>}
\* The objectives of a system that keeps getting worse, each above the last
\* by more than epsilon, with room for limit + 1 regressions
ExitObjectives == {2 * j : j \in 0..(RegressionCountLimit + 1)}
WorseningObjective(value) ==
    /\ last_objective # None => value > Unwrap(last_objective)
    /\ CsRecordObjective(value)

\* Deltas and worsening objectives recorded, the latch polled and reset
NextExit ==
    \/ \E delta \in ExitDeltas : RecordDelta(delta)
    \/ \E value \in ExitObjectives : WorseningObjective(value)
    \/ PollSafeMode
    \/ ResetSafeMode
    \/ Tick

SpecExit == InitEngine /\ [][NextExit]_vars

\* The step clears the latch: a timer poll after the cooldown, or
\* reset_safe_mode.
LatchCleared == safe_mode # None /\ safe_mode' = None

\* The slots whose flip count was above the limit, in the window the call
\* fell into, before the record_delta that has just returned.
AlreadyOver(i) == FlipsBefore(i) > DirectionFlipLimit

FirstUpdate == ratelog.op = "apply" /\ ratelog.pre.updates_in_window = 0

\* C39: on a freshly constructed executor that has recorded no update, the
\* rate gate accepts the first update at any timestamp, also one smaller
\* than min_interval_us.
C39_FirstUpdateAccepted == FirstUpdate => ratelog.result = "Ok"

(***************************************************************************)
(* C40: every cycle opened by an ApplyPlus is closed                       *)
(***************************************************************************)
\* An observe whose Digest event the audit queue accepts.
ObserveWithRoom(objective_value) ==
    /\ EnqueueResult(queue) # "Full"
    /\ Observe(objective_value)

\* The adaptation loop under an unbounded stream of observes, with an audit
\* sink that keeps draining so that the queue does not stay full.
NextLive ==
    \/ \E objective_value \in CallObjectives : Observe(objective_value)
    \/ Drain
    \/ Tick

SpecLive ==
    /\ InitEngine
    /\ [][NextLive]_vars
    /\ WF_vars(\E objective_value \in CallObjectives : ObserveWithRoom(objective_value))
    /\ WF_vars(Drain)

\* A cycle is open: an ApplyPlus has gone out and no Update or abort has
\* closed it.
CycleOpen == sp.state \in {"WaitingPlus", "WaitingMinus"}

\* C40: given an unbounded stream of observes and an audit queue that does
\* not stay full, every open cycle is eventually closed, and the observe
\* that closes it returns an Update or NoChange{EvalTimeout}.
C40_EveryCycleCloses ==
    /\ CycleOpen ~> (sp.state = "Ready")
    /\ [][(CycleOpen /\ sp'.state = "Ready") =>
              \/ out'.proposal.kind = "Update"
              \/ out'.proposal = NoChange("EvalTimeout")]_vars

\* A cycle opened by an ApplyPlus has been closed by an Update after a
\* completed plus window.
C40_Witness ==
    /\ out.op = "observe"
    /\ out.opened # None
    /\ out.pre.state = "WaitingMinus"
    /\ out.proposal.kind = "Update"
    /\ sp.state = "Ready"
    /\ sp.k = out.pre.k + 1

====
